---- MODULE Spec2Model ----
(***************************************************************************)
(* A model of FPGA_common.cpp (LimeSuite): the FPGA PLL configuration      *)
(* sequence (SetPllFrequency, SetPllClock), the 12-bit sample codec        *)
(* (Samples2FPGAPacketPayload, FPGAPacketPayload2Samples) and the waveform *)
(* uploader (UploadWFM).                                                    *)
(*                                                                         *)
(* Frequencies are integers in units of 10 kHz (30.72 MHz = 3072): every   *)
(* frequency of the model is a whole number of units, so the double        *)
(* arithmetic of the source on them is exact or is compared far from any   *)
(* rounding boundary; the one single-precision value of the divider search *)
(* (coef) is rounded as IEEE-754 binary32 rounds it.                        *)
(***************************************************************************)
EXTENDS Integers, Sequences, FiniteSets, TLC

VARIABLES
    \* ---- sample codec ----
    mimo,          \* bool mimo
    samplesCount,  \* int samplesCount
    samples,       \* samples[ch][k] = [i |-> int16, q |-> int16]
    buffer,        \* the packed payload, a sequence of bytes
    decoded,       \* what FPGAPacketPayload2Samples stored, per channel
    collected,     \* its return value
    cpc,           \* "idle" | "input" | "packed" | "unpacked"
    \* ---- waveform upload ----
    chCount, sample_count, epIndex,   \* the arguments of UploadWFM
    cnt, samplesUsed,
    sent,          \* one record per SendData call
    aborts,        \* number of AbortSending calls
    wret,          \* return value of UploadWFM
    wpc,           \* "idle" | "call" | "loop" | "finish" | "done"
    \* ---- SetPllFrequency ----
    connOpen,      \* connection is set and connection->IsOpen()
    boardType,     \* eLMS_DEV boardType (line 153)
    pllIndex, inputFreq,
    clocks,        \* FPGA_PLL_clock clocks[clockCount]
    dev,           \* what the device answers for registers 0x0005, 0x0003, 0x0025
    ioFailAt,      \* which register access fails, counted in regLog; 0: none
    nanInt,        \* what int(x) gave in this call for x NaN or out of range
    reg23val, N, M,
    Fvco,          \* a fraction <<numerator, denominator>>; <<0, 0>> is NaN;
                   \* <<>> before line 282 has assigned it
    now,           \* time since t1, in ticks of 10 ms
    t2,            \* t2 - t1, in ticks of 10 ms
    done, errorCode,
    error,         \* bool error of the phase search (line 380)
    clk,           \* the clock of the phase loop (lines 346-401), from 1
    sawDone,       \* some status read showed bit 0 or a nonzero error code
    reported,      \* the ReportError calls made so far
    pret,          \* return value of SetPllFrequency
    ppc,           \* "idle" | "call" | "reset" | "configure" | "config" |
                   \* "phase" | "shift" | "search" | "done"
    \* ---- DetectRefClk ----
    fx3Ratio,      \* fx3Clk / fx3Cnt of the call, a whole number
    vals2,         \* what the device answers for registers 0x72 and 0x73
    elapsed,       \* end - start, in ticks of 100 ms
    rret,          \* return value of DetectRefClk, in Hz
    rpc,           \* "idle" | "call" | "wait" | "count" | "done"
    \* ---- SetInterfaceFreq (five arguments) ----
    txRate_Hz, rxRate_Hz, txPhase, rxPhase,
    status,        \* int status
    subCalls,      \* one record per sub-operation: the direction, whether
                   \* it was SetPllFrequency, its first register access and
                   \* its return value once it has returned
    iret,          \* return value of SetInterfaceFreq
    ipc,           \* "idle" | "rx" | "rxpll" | "tx" | "txpll" | "done"
    \* ---- StartStreaming and StopStreaming ----
    ctrl000A,      \* the device's register 0x000A
    sret,          \* return value of the last call
    spc,           \* "idle" | "ready" | "started" | "stopped"
    \* ---- SetInterfaceFreq (three arguments) ----
    channel,       \* int channel
    lms,           \* the registers of the LMS7002M: 0x0020 and the banks of
                   \* channel A and of channel B
    lmsBefore,     \* lms when the call was made
    dataRdA, dataRdB,
    reg20,
    fpc,           \* "idle" | "call" | "backup" | "rxsearch" | "rxplain" |
                   \* "tx" | "txsearch" | "txplain" | "plain" | "done"
    \* ---- the connection ----
    regLog         \* the register accesses made so far, in order; the reads
                   \* of one polling loop are one entry

codecVars == <<mimo, samplesCount, samples, buffer, decoded, collected, cpc>>
wfmVars == <<chCount, sample_count, epIndex, cnt, samplesUsed, sent, aborts, wret, wpc>>
pllArgs == <<connOpen, boardType, pllIndex, inputFreq, dev, ioFailAt>>
pllVars == <<pllArgs, clocks, nanInt, reg23val, N, M, Fvco, now, t2, done, errorCode,
             error, clk, sawDone, reported, pret, ppc>>
refVars == <<fx3Ratio, vals2, elapsed, rret, rpc>>
ifaceVars == <<txRate_Hz, rxRate_Hz, txPhase, rxPhase, status, subCalls, iret, ipc>>
streamVars == <<ctrl000A, sret, spc>>
spiVars == <<channel, lms, lmsBefore, dataRdA, dataRdB, reg20, fpc>>
chipVars == <<streamVars, spiVars>>
vars == <<codecVars, wfmVars, pllVars, refVars, ifaceVars, chipVars, regLog>>

-----------------------------------------------------------------------------
(* Machine arithmetic *)

\* uint8_t(x): the low 8 bits
ToUint8(x) == x % 256

\* int16_t(x): the low 16 bits, read as two's complement
ToInt16(x) == LET u == x % 65536 IN IF u >= 32768 THEN u - 65536 ELSE u

\* x >> n on a signed int: arithmetic shift
Sar(x, n) == x \div (2 ^ n)

\* x << n on an int whose result fits the int
Shl(x, n) == x * (2 ^ n)

RECURSIVE BitAnd(_, _)
\* a & b on non-negative operands
BitAnd(a, b) ==
    IF a = 0 \/ b = 0 THEN 0
    ELSE (IF a % 2 = 1 /\ b % 2 = 1 THEN 1 ELSE 0) + 2 * BitAnd(a \div 2, b \div 2)

RECURSIVE BitOr(_, _)
\* a | b on non-negative operands
BitOr(a, b) ==
    IF a = 0 THEN b
    ELSE IF b = 0 THEN a
    ELSE (IF a % 2 = 1 \/ b % 2 = 1 THEN 1 ELSE 0) + 2 * BitOr(a \div 2, b \div 2)

\* C's integer division and remainder: truncation toward zero
CDiv(a, b) == IF a >= 0 THEN a \div b ELSE (a + b - 1) \div b
CMod(a, b) == a - b * CDiv(a, b)

-----------------------------------------------------------------------------
(* The connection: what a register access leaves in regLog *)

\* connection->WriteRegister(addr, value)
WriteRegister(addr, value) == [op |-> "W", addr |-> addr, val |-> value]

\* connection->ReadRegister(addr, value): val is what the device answered
ReadRegister(addr, value, ok) == [op |-> "R", addr |-> addr, val |-> value, ok |-> ok]

\* connection->WriteRegisters(addrs, values, n): batch is <<addr, value>> pairs
WriteRegisters(batch, ok) == [op |-> "WB", batch |-> batch, ok |-> ok]

\* ReportError(errnum, format, ...) stores the message and returns errnum
ReportError(errnum) == errnum

-----------------------------------------------------------------------------
(* Sample codec *)

\* three bytes with the nibbles of the middle byte the other way round
PackSampleNibblesSwapped(s) ==
    << ToUint8(s.i),
       BitOr(Shl(BitAnd(Sar(s.i, 8) % 256, 15), 4), ToUint8(Shl(s.q, 4)) \div 16),
       ToUint8(Sar(s.q, 4)) >>

\* The three bytes Samples2FPGAPacketPayload stores for one complex16_t.
\* Each expression is an int truncated to the uint8_t buffer cell, so only
\* its low 8 bits count and the | is taken on them.
PackSample(s) ==
    << ToUint8(s.i),
       BitOr(BitAnd(Sar(s.i, 8) % 256, 15), ToUint8(Shl(s.q, 4))),
       ToUint8(Sar(s.q, 4)) >>

RECURSIVE PackFrom(_, _, _, _)
PackFrom(smp, src, count, m) ==
    IF ~(src - 1 < count) THEN <<>>
    ELSE PackSample(smp[1][src])
         \o (IF m THEN PackSample(smp[2][src]) ELSE <<>>)
         \o PackFrom(smp, src + 1, count, m)

\* Samples2FPGAPacketPayload(samples, samplesCount, mimo, compressed = true,
\* buffer): the bytes written to buffer; the return value is their number.
Samples2FPGAPacketPayload(smp, count, m) == PackFrom(smp, 1, count, m)

\* its return value b: three bytes a sample, three more in MIMO mode
PackedLength(count, m) == count * (IF m THEN 6 ELSE 3)

\* One complex16_t read from three bytes at buffer[b], buffer[b+1], buffer[b+2]
\* (b counted from 1).
UnpackNoSignExtend(buf, b) ==
    [i |-> BitOr(buf[b], Shl(buf[b + 1], 8)) % 4096,
     q |-> Sar(ToInt16(BitOr(buf[b + 1], Shl(buf[b + 2], 8))), 4)]

UnpackSample(buf, b) ==
    [i |-> Sar(ToInt16(Shl(ToInt16(BitOr(buf[b], Shl(buf[b + 1], 8))), 4)), 4),
     q |-> Sar(ToInt16(BitOr(buf[b + 1], Shl(buf[b + 2], 8))), 4)]

RECURSIVE UnpackFrom(_, _, _, _, _)
\* the loop for(b = 0; b < bufLen; collected++): acc is <<samples[0], samples[1]>>
UnpackFrom(buf, b, bufLen, m, acc) ==
    IF ~(b - 1 < bufLen) THEN acc
    ELSE IF m
         THEN UnpackFrom(buf, b + 6, bufLen, m,
                  << Append(acc[1], UnpackSample(buf, b)),
                     Append(acc[2], UnpackSample(buf, b + 3)) >>)
         ELSE UnpackFrom(buf, b + 3, bufLen, m,
                  << Append(acc[1], UnpackSample(buf, b)), acc[2] >>)

\* FPGAPacketPayload2Samples(buffer, bufLen, mimo, compressed = true, samples)
FPGAPacketPayload2Samples(buf, bufLen, m) == UnpackFrom(buf, 1, bufLen, m, << <<>>, <<>> >>)

-----------------------------------------------------------------------------
(* FPGA::SetPllFrequency: the divider search, lines 216-285 *)

\* const double PLLlowerLimit = 5e6, in units of 10 kHz
PLLlowerLimit == 500

\* const double vcoLimits_Hz[2] = { 600e6, 1300e6 }
vcoMin == 60000
vcoMax == 130000

\* if(Mtemp > 255)
MtempLimit == 255

\* double bestDeviation = 1e9
InitialDeviation == 100000

\* A double is kept as the exact fraction <<num, den>> of its value; den = 0
\* is the result of a division by zero: 0/0 is NaN, x/0 with x > 0 is +inf.
IsNaN(x) == x[2] = 0 /\ x[1] = 0

\* a < b and a <= b on doubles with den >= 0; false when either is NaN
RatLess(a, b) == ~IsNaN(a) /\ ~IsNaN(b) /\ a[1] * b[2] < b[1] * a[2]
RatLeq(a, b) == ~IsNaN(a) /\ ~IsNaN(b) /\ a[1] * b[2] <= b[1] * a[2]

\* A float (IEEE-754 binary32) is <<m, sh>> with value m / 2^sh and m < 2^24
\* (sh < 0 stands for m * 2^-sh).
TwoTo23 == 8388608
TwoTo24 == 16777216

RECURSIVE ExcessBits(_, _)
\* how many bits P has beyond 24, from s on
ExcessBits(P, s) == IF P \div (2 ^ s) < TwoTo24 THEN s ELSE ExcessBits(P, s + 1)

\* round to nearest, ties to even, of m + rem/unit
RoundNearestEven(m, rem, unit) ==
    IF 2 * rem > unit THEN m + 1
    ELSE IF 2 * rem = unit THEN m + (m % 2)
    ELSE m

RECURSIVE FloatQuot(_, _, _, _)
\* long division of r/q below the binary point until 24 significant bits
FloatQuot(acc, r, q, sh) ==
    IF acc >= TwoTo23 THEN << RoundNearestEven(acc, r, q), sh >>
    ELSE FloatQuot(2 * acc + (IF 2 * r >= q THEN 1 ELSE 0), (2 * r) % q, q, sh + 1)

\* float(p / q) for integers p > 0, q > 0 (the double quotient is never within
\* a double rounding of a float tie it does not hit exactly)
FloatOfQuotient(p, q) == FloatQuot(p \div q, p % q, q, 0)

\* float * int in single precision
FloatTimesInt(f, n) ==
    LET P == f[1] * n
        s == ExcessBits(P, 0)
    IN IF s = 0 THEN << P, f[2] >>
       ELSE << RoundNearestEven(P \div (2 ^ s), P % (2 ^ s), 2 ^ s), f[2] - s >>

\* int(f + 0.5): the sum is exact in double, the conversion truncates
IntOfFloatPlusHalf(f) ==
    IF f[2] <= 0 THEN f[1] * (2 ^ (0 - f[2]))
    ELSE (f[1] + 2 ^ (f[2] - 1)) \div (2 ^ f[2])

\* freq = clocks[i].outFrequency*(int(vcoLimits_Hz[0]/clocks[i].outFrequency) + 1)
FirstMultiple(out) == out * ((vcoMin \div out) + 1)

\* the keys one clock inserts into availableVCOs, in the order of insertion
\* (lines 222-228)
KeysOf(out) ==
    LET first == FirstMultiple(out)
        count == IF first >= vcoMin /\ first <= vcoMax
                 THEN (vcoMax - first) \div out + 1 ELSE 0
    IN [k \in 1..count |-> first + (k - 1) * out]

RECURSIVE InsertedKeys(_, _)
\* the keys clocks i.. insert (lines 219-229)
InsertedKeys(clks, i) ==
    IF i > Len(clks) THEN <<>>
    ELSE KeysOf(clks[i].outFrequency) \o InsertedKeys(clks, i + 1)

\* availableVCOs in the order std::map iterates it: ascending. A key inserted
\* more than once stands here more than once and is visited once (NewKey).
AvailableVCOs(clks) == SortSeq(InsertedKeys(clks, 1), LAMBDA x, y : x < y)
NewKey(keys, i) == i = 1 \/ keys[i] # keys[i - 1]

\* it.second after lines 235-242: the outputs with an integer divider
ScoreCountsBypassed(clks, vco) ==
    Cardinality({i \in 1..Len(clks) : vco % clks[i].outFrequency = 0})

Score(clks, vco) ==
    Cardinality({i \in 1..Len(clks) :
        /\ ~(clks[i].outFrequency = 0 \/ clks[i].bypass)
        /\ vco % clks[i].outFrequency = 0})

RECURSIVE MaxScore(_, _, _, _, _)
\* the loop of lines 233-247 over keys[lo..hi], in ascending order (the range
\* is halved; the order of the visits is that of the map)
MaxScore(clks, keys, lo, hi, bestScore) ==
    IF lo > hi THEN bestScore
    ELSE IF lo = hi
         THEN IF Score(clks, keys[lo]) > bestScore
              THEN Score(clks, keys[lo]) ELSE bestScore
         ELSE LET mid == (lo + hi) \div 2
                  lower == MaxScore(clks, keys, lo, mid, bestScore)
              IN IF lower >= 0 THEN MaxScore(clks, keys, mid + 1, hi, lower) ELSE lower

\* int bestScore (lines 231-247)
BestScore(clks, keys) == MaxScore(clks, keys, 1, Len(keys), 0)

\* int(coef*Ntemp + 0.5)
MtempOf(coef, Ntemp) == IntOfFloatPlusHalf(FloatTimesInt(coef, Ntemp))

RECURSIVE NSearch(_, _, _, _)
\* the loop while(inputFreq / Ntemp > PLLlowerLimit) of lines 258-268
NSearch(coef, inFreq, Ntemp, Mtemp) ==
    IF inFreq > PLLlowerLimit * Ntemp
    THEN LET Mnext == MtempOf(coef, Ntemp + 1)
         IN IF Mnext > MtempLimit
            THEN << Ntemp, MtempOf(coef, Ntemp) >>
            ELSE NSearch(coef, inFreq, Ntemp + 1, Mnext)
    ELSE << Ntemp, Mtemp >>

\* <<Ntemp, Mtemp>> for one candidate (lines 255-268)
DividersForNoStepBack(inFreq, vco) ==
    LET coef == FloatOfQuotient(vco, inFreq)
    IN << 1, MtempOf(coef, 1) >>

DividersFor(inFreq, vco) ==
    LET coef == FloatOfQuotient(vco, inFreq)
    IN NSearch(coef, inFreq, 1, MtempOf(coef, 1))

\* fabs(it.first - inputFreq*Mtemp / Ntemp)
Deviation(inFreq, vco, nm) ==
    LET d == vco * nm[1] - inFreq * nm[2]
    IN << IF d < 0 THEN 0 - d ELSE d, nm[1] >>

\* the body of the loop of lines 251-278 for the candidate vco
SelectStepFirstWins(clks, inFreq, best, vco, sel) ==
    IF Score(clks, vco) = best
    THEN LET nm == DividersFor(inFreq, vco)
             deviation == Deviation(inFreq, vco, nm)
         IN IF RatLess(deviation, sel.bestDeviation)
            THEN [N |-> nm[1], M |-> nm[2], bestDeviation |-> deviation, candidate |-> vco]
            ELSE sel
    ELSE sel

SelectStep(clks, inFreq, best, vco, sel) ==
    IF Score(clks, vco) = best
    THEN LET nm == DividersFor(inFreq, vco)
             deviation == Deviation(inFreq, vco, nm)
         IN IF RatLeq(deviation, sel.bestDeviation)
            THEN [N |-> nm[1], M |-> nm[2], bestDeviation |-> deviation, candidate |-> vco]
            ELSE sel
    ELSE sel

RECURSIVE SelectFrom(_, _, _, _, _, _, _)
\* the loop of lines 251-278 over keys[lo..hi], in ascending order
SelectFrom(clks, inFreq, best, keys, lo, hi, sel) ==
    IF lo > hi THEN sel
    ELSE IF lo = hi
         THEN IF NewKey(keys, lo) THEN SelectStep(clks, inFreq, best, keys[lo], sel)
              ELSE sel
         ELSE LET mid == (lo + hi) \div 2
                  lower == SelectFrom(clks, inFreq, best, keys, lo, mid, sel)
              IN IF lower.N >= 0
                 THEN SelectFrom(clks, inFreq, best, keys, mid + 1, hi, lower)
                 ELSE lower

\* N, M after line 278; N(0), M(0) when no candidate was taken
SelectDividers(clks, inFreq) ==
    LET keys == AvailableVCOs(clks)
    IN SelectFrom(clks, inFreq, BestScore(clks, keys), keys, 1, Len(keys),
           [N |-> 0, M |-> 0, bestDeviation |-> << InitialDeviation, 1 >>,
            candidate |-> 0])

\* Fvco = inputFreq*M/N (line 282)
ActualVco(inFreq, m, n) == << inFreq * m, n >>

\* if(Fvco < vcoLimits_Hz[0] || Fvco > vcoLimits_Hz[1]) (line 284)
VcoRejectedNever(fvco) == FALSE
VcoRejected(fvco) == RatLess(fvco, << vcoMin, 1 >>) \/ RatLess(<< vcoMax, 1 >>, fvco)

-----------------------------------------------------------------------------
(* FPGA::SetPllFrequency and FPGA::SetPllClock: register values *)

PLLCFG_START == 1
PHCFG_START == 2
PLLRST_START == 4
PHCFG_UPDN == 8192
PHCFG_MODE == 16384
busyAddr == 33

\* errno.h values passed to ReportError
EIO == 5
EBUSY == 16
ENODEV == 19
ERANGE == 34

\* eLMS_DEV: boardType is LMS_DEV_LIMESDR_QPCIE or LMS_DEV_UNKNOWN (line 153)
LMS_DEV_UNKNOWN == "LMS_DEV_UNKNOWN"
LMS_DEV_LIMESDR_QPCIE == "LMS_DEV_LIMESDR_QPCIE"

\* INT_MIN, and what int(x) gives for a NaN or out-of-range double x: the
\* conversion is undefined; x86 stores INT_MIN, AArch64 stores 0 for NaN
IntMin == -2147483647 - 1
UndefinedInts == {0, IntMin}

\* x & ~mask on a uint16_t x
ClearBits(x, mask) == x - BitAnd(x, mask)

\* lines 175-180: PLL index into bits 7:3, start and direction bits cleared
Reg23Init(r3, pll) ==
    BitOr(ClearBits(r3, 248 + PLLCFG_START + PHCFG_START + PLLRST_START + PHCFG_UPDN),
          Shl(pll, 3)) % 65536

\* lines 190-196: the first batch
ResetBatch(reg25, r23, findPhase) ==
    << << 37, BitOr(reg25, 128) >>, << 35, r23 >> >>
    \o (IF findPhase = FALSE THEN << << 35, BitOr(r23, PLLRST_START) >> >> ELSE <<>>)

\* n / 2 and n / 2 + n % 2 (lines 280-281, 293-294, 305-306)
LowCount(n) == CDiv(n, 2)
HighCount(n) == LowCount(n) + CMod(n, 2)

\* high << 8 | low as pushed into values. For the one negative n that occurs,
\* INT_MIN, the shifted high half leaves the 32 bits and the low half stays.
CounterValue(n) ==
    IF n < 0 THEN LowCount(n) ELSE BitOr(Shl(HighCount(n), 8), LowCount(n))

\* uint16_t M_N_odd_byp (lines 287-291)
MNOddByp(m, n) ==
    BitOr(BitOr(BitOr(Shl(m % 2, 3), Shl(n % 2, 1)), IF m = 1 THEN 4 ELSE 0),
          IF n = 1 THEN 1 ELSE 0)

\* int C = int(Fvco / clocks[i].outFrequency + 0.5) (lines 304, 348); ub is
\* what the build stores when Fvco is NaN
OutputDivider(fvco, out, ub) ==
    IF IsNaN(fvco) THEN ub
    ELSE (2 * fvco[1] + fvco[2] * out) \div (2 * fvco[2] * out)

\* clocks[i].rd_actualFrequency = (inputFreq * M / N) / (chigh + clow)
ActualFrequencyOfHigh(inFreq, m, n, c) == << inFreq * m, n * HighCount(c) >>
ActualFrequency(inFreq, m, n, c) == << inFreq * m, n * (HighCount(c) + LowCount(c)) >>

RECURSIVE OddsByps(_, _, _, _, _, _)
\* c7_c0_odds_byps (first = 0) and c15_c8_odds_byps (first = 8) after the loop
\* of lines 302-321, from clock i (counted from 0) on
OddsByps(clks, fvco, ub, first, i, acc) ==
    IF i >= Len(clks) THEN acc
    ELSE IF i >= first /\ i < first + 8
         THEN LET c == OutputDivider(fvco, clks[i + 1].outFrequency, ub)
                  bit == 2 * (i - first)
                  en == IF ~clks[i + 1].bypass /\ c # 1
                        THEN ClearBits(acc, 2 ^ bit) ELSE acc
                  odd == BitOr(en, Shl(CMod(c, 2), bit + 1))
              IN IF odd >= 0 THEN OddsByps(clks, fvco, ub, first, i + 1, odd) ELSE odd
         ELSE OddsByps(clks, fvco, ub, first, i + 1, acc)

\* if (clockCount != 4 || clocks->index == 3): the start entry closes the batch
StartsPll(clks) == Len(clks) # 4 \/ clks[1].index = 3

\* the batch with the start entry ahead of the divider registers
ConfigBatchStartFirst(clks, inFreq, r23, m, n, ub) ==
    LET fvco == ActualVco(inFreq, m, n)
    IN << << 35, BitOr(r23, PLLCFG_START) >>,
          << 38, MNOddByp(m, n) >>,
          << 42, CounterValue(n) >>,
          << 43, CounterValue(m) >> >>
       \o [i \in 1..Len(clks) |->
              << 46 + (i - 1),
                 CounterValue(OutputDivider(fvco, clks[i].outFrequency, ub)) >>]
       \o << << 39, OddsByps(clks, fvco, ub, 0, 0, 21845) >>,
             << 40, OddsByps(clks, fvco, ub, 8, 0, 21845) >>,
             << 35, ClearBits(r23, PLLCFG_START) >> >>

\* lines 213, 287-327: the batch that configures the dividers
ConfigBatch(clks, inFreq, r23, m, n, ub) ==
    LET fvco == ActualVco(inFreq, m, n)
    IN << << 35, ClearBits(r23, PLLRST_START) >>,
          << 38, MNOddByp(m, n) >>,
          << 42, CounterValue(n) >>,
          << 43, CounterValue(m) >> >>
       \o [i \in 1..Len(clks) |->
              << 46 + (i - 1),
                 CounterValue(OutputDivider(fvco, clks[i].outFrequency, ub)) >>]
       \o << << 39, OddsByps(clks, fvco, ub, 0, 0, 21845) >>,
             << 40, OddsByps(clks, fvco, ub, 8, 0, 21845) >> >>
       \o (IF StartsPll(clks) THEN << << 35, BitOr(r23, PLLCFG_START) >> >> ELSE <<>>)

\* The phase step is Fstep_deg = 45 / C up to single-precision rounding, which
\* for a whole number of degrees never reaches the truncation of the sum.
\* const int nSteps = 0.49 + clocks[i].phaseShift_deg / Fstep_deg (line 354)
FixedSteps(phase, c, ub) ==
    IF phase = 0 \/ c = 0 THEN 0
    ELSE IF c < 0 THEN ub
    ELSE CDiv(2205 + 100 * phase * c, 4500)

\* const int nSteps = (360.0 / Fstep_deg) - 0.5 (line 359)
SearchSteps(c, ub) ==
    IF c = 0 THEN 0
    ELSE IF c < 0 THEN ub
    ELSE 8 * c - 1

\* abs(nSteps); abs(INT_MIN) is INT_MIN
Abs(x) == IF x < 0 /\ x # IntMin THEN 0 - x ELSE x

\* int cnt_ind = (clockIndex + 2) & 0x1F
CntInd(clockIndex) == (clockIndex + 2) % 32

\* reg23val after lines 101-107 of SetPllClock
PhaseReg23(r23, clockIndex, nSteps) ==
    LET sel == BitOr(ClearBits(ClearBits(r23, 3840), PHCFG_MODE),
                     Shl(CntInd(clockIndex), 8))
    IN IF nSteps >= 0 THEN BitOr(sel, PHCFG_UPDN) ELSE ClearBits(sel, PHCFG_UPDN)

\* the batch of SetPllClock, lines 98-109; r23 is reg23val on entry
PhaseBatch(r23, clockIndex, nSteps) ==
    << << 35, ClearBits(r23, PLLCFG_START) >>,
       << 36, Abs(nSteps) >>,
       << 35, PhaseReg23(r23, clockIndex, nSteps) >>,
       << 35, BitOr(PhaseReg23(r23, clockIndex, nSteps), PHCFG_START) >> >>

\* reg23val after lines 365-369 of the phase search
SearchReg23(r23, clockIndex) ==
    BitOr(BitOr(BitOr(ClearBits(ClearBits(r23, PLLCFG_START), 3840),
                      Shl(CntInd(clockIndex), 8)),
                PHCFG_UPDN),
          PHCFG_MODE)

\* the batch of the phase search, lines 371-373
SearchBatch(r23, clockIndex, nSteps) ==
    << << 35, SearchReg23(r23, clockIndex) >>,
       << 36, Abs(nSteps) >>,
       << 35, BitOr(SearchReg23(r23, clockIndex), PHCFG_START) >> >>

\* done = statusReg & 0x1; errorCode = (statusReg >> 7) & 0xFF
DoneBit(statusReg) == statusReg % 2 = 1
ErrorCode(statusReg) == (statusReg \div 128) % 256

\* done = statusReg & 0x4; error = statusReg & 0x08 (phase search)
SearchDone(statusReg) == (statusReg \div 4) % 2 = 1
SearchError(statusReg) == (statusReg \div 8) % 2 = 1

-----------------------------------------------------------------------------
(* The codec as a state machine: pack the drawn samples, unpack the bytes *)

MaxCodecSamples == 3

\* int16_t values: the 12-bit extremes, bit patterns 0xAAA and 0x555, byte
\* boundaries, and values that do not fit 12 bits
SampleVals == {-32768, -2049, -2048, -2047, -1366, -256, -1, 0, 1, 255, 1365,
               2047, 2048, 32767}

SamplePairs == [i : SampleVals, q : SampleVals]

\* the 12-bit pairs that fill the positions around the drawn one
FillPairs == {[i |-> -2048, q |-> 2047], [i |-> 2047, q |-> -2048]}

Channels(m) == IF m THEN {1, 2} ELSE {1}

CodecIdle ==
    /\ mimo = FALSE /\ samplesCount = 0 /\ samples = <<>> /\ buffer = <<>>
    /\ decoded = <<>> /\ collected = 0 /\ cpc = "idle"

WfmIdle ==
    /\ chCount = 0 /\ sample_count = 0 /\ epIndex = 0 /\ cnt = 0 /\ samplesUsed = 0
    /\ sent = <<>> /\ aborts = 0 /\ wret = 0 /\ wpc = "idle"

PllIdle ==
    /\ connOpen = FALSE /\ boardType = LMS_DEV_UNKNOWN /\ pllIndex = 0 /\ inputFreq = 0
    /\ clocks = <<>> /\ dev = <<>> /\ ioFailAt = 0 /\ nanInt = 0
    /\ reg23val = 0 /\ N = 0 /\ M = 0 /\ Fvco = <<>> /\ now = 0 /\ t2 = 0
    /\ done = FALSE /\ errorCode = 0 /\ error = FALSE /\ clk = 0 /\ sawDone = FALSE
    /\ reported = <<>> /\ pret = 0 /\ ppc = "idle"

ConnIdle == regLog = <<>>

RefIdle ==
    fx3Ratio = 0 /\ vals2 = <<>> /\ elapsed = 0 /\ rret = 0 /\ rpc = "idle"

IfaceIdle ==
    /\ txRate_Hz = 0 /\ rxRate_Hz = 0 /\ txPhase = 0 /\ rxPhase = 0
    /\ status = 0 /\ subCalls = <<>> /\ iret = 0 /\ ipc = "idle"

StreamIdle == ctrl000A = 0 /\ sret = 0 /\ spc = "idle"

SpiIdle ==
    /\ channel = 0 /\ lms = <<>> /\ lmsBefore = <<>>
    /\ dataRdA = <<>> /\ dataRdB = <<>> /\ reg20 = 0 /\ fpc = "idle"

CodecInit ==
    /\ mimo \in BOOLEAN
    /\ samplesCount \in 1..MaxCodecSamples
    /\ \E hotCh \in Channels(mimo), hotK \in 1..samplesCount,
          hot \in SamplePairs, fill \in FillPairs :
          samples = [ch \in Channels(mimo) |->
                        [k \in 1..samplesCount |->
                            IF ch = hotCh /\ k = hotK THEN hot ELSE fill]]
    /\ buffer = <<>> /\ decoded = <<>> /\ collected = 0
    /\ cpc = "input"
    /\ WfmIdle /\ PllIdle /\ ConnIdle /\ RefIdle /\ IfaceIdle /\ StreamIdle /\ SpiIdle

Pack ==
    /\ cpc = "input"
    /\ buffer' = Samples2FPGAPacketPayload(samples, samplesCount, mimo)
    /\ cpc' = "packed"
    /\ UNCHANGED <<mimo, samplesCount, samples, decoded, collected, wfmVars, pllVars,
                   refVars, chipVars, ifaceVars, regLog>>

Unpack ==
    /\ cpc = "packed"
    /\ decoded' = FPGAPacketPayload2Samples(buffer, Len(buffer), mimo)
    /\ collected' = Len(decoded'[1])
    /\ cpc' = "unpacked"
    /\ UNCHANGED <<mimo, samplesCount, samples, buffer, wfmVars, pllVars,
                   refVars, chipVars, ifaceVars, regLog>>

CodecNext == Pack \/ Unpack

SpecCodec == CodecInit /\ [][CodecNext]_vars

Fits12(v) == -2048 <= v /\ v <= 2047

AllFit12 ==
    \A ch \in DOMAIN samples : \A k \in DOMAIN samples[ch] :
        Fits12(samples[ch][k].i) /\ Fits12(samples[ch][k].q)

\* C1: for I and Q in [-2048, 2047], single-channel and MIMO, compressed
\* pack followed by compressed unpack returns exactly the original I and Q
\* of every sample and channel.
C1_RoundTrip ==
    (cpc = "unpacked" /\ AllFit12) =>
        /\ Len(buffer) = PackedLength(samplesCount, mimo)
        /\ collected = samplesCount
        /\ \A ch \in Channels(mimo) : \A k \in 1..samplesCount :
              decoded[ch][k] = samples[ch][k]

\* a negative 12-bit I and Q went through both directions, in MIMO mode, on
\* the second channel
C1_Witness ==
    /\ cpc = "unpacked" /\ AllFit12 /\ mimo /\ samplesCount >= 2
    /\ samples[2][2] = [i |-> -1366, q |-> -2047]
    /\ decoded[2][2] = [i |-> -1366, q |-> -2047]

\* a value outside 12 bits does not survive the round trip
CodecLossy ==
    cpc = "unpacked" /\ ~AllFit12 /\ decoded[1] # samples[1]

-----------------------------------------------------------------------------
(* Waveform upload: FPGA::UploadWFM *)

\* FPGA::samples16InPkt (FPGA_common.h): 16-bit complex samples in the 4080
\* byte payload of one FPGA_DataPacket
samples16InPkt == 1020

\* sizeof the FPGA_DataPacket header that precedes pkt.data
PktHeaderBytes == 16

MaxSampleCount == 1030

\* what the device answers when register 0x000D is read
Reg000DVals == {0, 65531}

\* int bufPos = Samples2FPGAPacketPayload(batch, n, chCount==2, true, pkt.data)
PayloadBytes(n, ch) == PackedLength(n, ch = 2)

\* int samplesToSend = cnt > samplesInPkt/chCount ? samplesInPkt/chCount : cnt
SamplesToSend(c, ch) ==
    IF c > samples16InPkt \div ch THEN samples16InPkt \div ch ELSE c

\* int payloadSize = (bufPos / 4) * 4
PayloadSizeExact(bufPos) == bufPos
PayloadSize(bufPos) == (bufPos \div 4) * 4

\* SendData(...) != bToSend: the loop is left by break
ShortSendIgnored(accepted, bToSend) == FALSE
ShortSend(accepted, bToSend) == accepted # bToSend

\* return cnt == 0 ? 0 : ReportError(-1, ...)
UploadResultAlwaysOk(c) == 0
UploadResult(c) == IF c = 0 THEN 0 ELSE ReportError(-1)

WfmInit ==
    /\ chCount \in {1, 2}
    /\ sample_count \in 0..MaxSampleCount
    /\ epIndex \in {0, 1}
    /\ cnt = 0 /\ samplesUsed = 0 /\ sent = <<>> /\ aborts = 0 /\ wret = 0
    /\ wpc = "call"
    /\ CodecIdle /\ PllIdle /\ ConnIdle /\ RefIdle /\ IfaceIdle /\ StreamIdle /\ SpiIdle

\* lines 512-558: select the endpoint, set channel and sample width, set
\* bit 2 of register 0x000D, start the counters
UploadWFM_Begin ==
    /\ wpc = "call"
    /\ \E regValue \in Reg000DVals :
          regLog' = regLog \o
              << WriteRegister(65535, 2 ^ epIndex),
                 WriteRegister(12, IF chCount = 2 THEN 3 ELSE 1),
                 WriteRegister(14, 2),
                 ReadRegister(13, regValue, TRUE),
                 WriteRegister(13, BitOr(regValue, 4)) >>
    /\ cnt' = sample_count
    /\ samplesUsed' = 0
    /\ wpc' = "loop"
    /\ UNCHANGED <<chCount, sample_count, epIndex, sent, aborts, wret, codecVars, pllVars,
                   refVars, chipVars, ifaceVars>>

\* lines 560-582, one iteration of while(cnt > 0)
UploadWFM_SendPacket ==
    /\ wpc = "loop" /\ cnt > 0
    /\ LET samplesToSend == SamplesToSend(cnt, chCount)
           bufPos == PayloadBytes(samplesToSend, chCount)
           payloadSize == PayloadSize(bufPos)
           bToSend == PktHeaderBytes + payloadSize
       IN \E accepted \in {bToSend, bToSend - 1, 0} :
            /\ sent' = Append(sent, [samplesToSend |-> samplesToSend,
                                     bufPos |-> bufPos,
                                     payloadSize |-> payloadSize,
                                     bToSend |-> bToSend,
                                     accepted |-> accepted])
            /\ samplesUsed' = samplesUsed + samplesToSend
            /\ IF ShortSend(accepted, bToSend)
               THEN cnt' = cnt /\ wpc' = "finish"
               ELSE cnt' = cnt - samplesToSend /\ wpc' = "loop"
    /\ UNCHANGED <<chCount, sample_count, epIndex, aborts, wret, codecVars, pllVars,
                   refVars, chipVars, ifaceVars, regLog>>

\* an upload that leaves the endpoint as it is
AbortSendingSkipped(n) == n

\* connection->AbortSending(epIndex) (line 591): one more call, n before it
AbortSending(n) == n + 1

\* lines 583-595: the loop is over; wait, abort the endpoint, return
UploadWFM_Finish ==
    /\ \/ wpc = "finish"
       \/ wpc = "loop" /\ ~(cnt > 0)
    /\ aborts' = AbortSending(aborts)
    /\ wret' = UploadResult(cnt)
    /\ wpc' = "done"
    /\ UNCHANGED <<chCount, sample_count, epIndex, cnt, samplesUsed, sent, codecVars,
                   pllVars, refVars, chipVars, ifaceVars, regLog>>

WfmNext == UploadWFM_Begin \/ UploadWFM_SendPacket \/ UploadWFM_Finish

SpecWfm == WfmInit /\ [][WfmNext]_vars

RECURSIVE SumPayload(_)
\* the payload bytes of the packets sent: bytes sent minus the header
SumPayload(log) ==
    IF log = <<>> THEN 0
    ELSE (log[1].bToSend - PktHeaderBytes) + SumPayload(Tail(log))

AllAccepted == \A k \in 1..Len(sent) : sent[k].accepted = sent[k].bToSend

\* the samples of the last packet of a complete upload
LastPacketSamples ==
    IF sample_count % (samples16InPkt \div chCount) = 0
    THEN samples16InPkt \div chCount
    ELSE sample_count % (samples16InPkt \div chCount)

\* C9 as claimed: when every SendData accepts all requested bytes, the
\* payload bytes sent add up to 3 * chCount * sample_count for every
\* sample_count >= 1.
C9_Original ==
    (wpc = "done" /\ AllAccepted /\ sample_count >= 1) =>
        SumPayload(sent) = 3 * chCount * sample_count

\* C9 amended: every packet carries 3 * chCount * samplesToSend bytes rounded
\* down to a multiple of 4, so a complete upload sends 3 * chCount *
\* sample_count payload bytes exactly when the byte count of its last packet
\* is a multiple of 4, and up to 3 bytes fewer otherwise.
C9_PayloadTotal ==
    (wpc = "done" /\ AllAccepted /\ sample_count >= 1) =>
        /\ \A k \in 1..Len(sent) :
              sent[k].payloadSize = ((3 * chCount * sent[k].samplesToSend) \div 4) * 4
        /\ SumPayload(sent) =
              3 * chCount * sample_count - ((3 * chCount * LastPacketSamples) % 4)
        /\ (3 * chCount * LastPacketSamples) % 4 = 0
              => SumPayload(sent) = 3 * chCount * sample_count

\* a complete two-channel upload of three packets whose short last packet (5
\* samples, 30 bytes) lost 2 bytes to the rounding
C9_Witness ==
    /\ wpc = "done" /\ AllAccepted /\ chCount = 2 /\ sample_count = 1025
    /\ Len(sent) = 3 /\ sent[3].bufPos = 30 /\ sent[3].payloadSize = 28
    /\ SumPayload(sent) = 3 * chCount * sample_count - 2

\* C10: after the first SendData that accepts fewer bytes than requested no
\* further SendData is made and UploadWFM returns nonzero; it returns 0 only
\* if every packet, covering all sample_count samples, was fully accepted.
C10_ShortSendAborts ==
    /\ \A k \in 1..Len(sent) :
          sent[k].accepted # sent[k].bToSend => k = Len(sent) /\ wpc # "loop"
    /\ wpc = "done" =>
          /\ ~AllAccepted => wret # 0
          /\ wret = 0 => /\ AllAccepted
                         /\ samplesUsed = sample_count
                         /\ cnt = 0

\* the second packet of an upload was cut short and the upload failed
C10_Witness ==
    /\ wpc = "done" /\ Len(sent) = 2 /\ sample_count > samples16InPkt
    /\ sent[1].accepted = sent[1].bToSend
    /\ sent[2].accepted = sent[2].bToSend - 1
    /\ wret # 0

-----------------------------------------------------------------------------
(* FPGA::SetPllFrequency as a state machine. One step is the code between    *)
(* two reads of the status register; a board that is not polled runs from   *)
(* stage to stage without reading it.                                        *)

\* const auto timeout = chrono::seconds(3), in ticks of 10 ms
TimeoutTicks == 300

\* one round of a polling loop (status read and 10 ms sleep) takes 1 to
\* MaxSleepTicks ticks
MaxSleepTicks == 2

\* the most clocks of one call in the family of frequency plans
MaxClocks == 2

\* values read from the status register 0x0021: idle, done, phase search done,
\* phase search error, both, error code 1, error code 1 with done
StatusVals == {0, 1, 4, 8, 12, 128, 129}

PllIndexes == {0, 15, 16}
InputFreqs == {499, 500, 3072, 5200}

\* <<outFrequency, bypass>> of a clock of a frequency plan: 4.99 MHz, 5 MHz,
\* 30.72 MHz, 650 MHz, 1400 MHz
ClockChoices ==
    {<< 499, FALSE >>, << 499, TRUE >>, << 500, FALSE >>, << 3072, FALSE >>,
     << 3072, TRUE >>, << 65000, FALSE >>, << 140000, FALSE >>}

Clock(index, out, phase, bypass, findPhase) ==
    [index |-> index, outFrequency |-> out, phaseShift_deg |-> phase,
     bypass |-> bypass, findPhase |-> findPhase, rd_actualFrequency |-> << 0, 1 >>]

\* frequency plans: every choice for 1..MaxClocks clocks
PlanClocks ==
    UNION {[1..n -> ClockChoices] : n \in 1..MaxClocks}

PlanOf(f) == [i \in DOMAIN f |-> Clock(i - 1, f[i][1], 0, f[i][2], FALSE)]

\* the clock lists SetInterfaceFreq builds for a given phase (lines 607-612,
\* 730-735) and for the phase search (lines 723-727)
ShiftClocks ==
    {<< Clock(0, 3072, 0, FALSE, FALSE), Clock(1, 3072, 90, FALSE, FALSE) >>,
     << Clock(0, 3072, 0, FALSE, FALSE), Clock(1, 3072, -90, FALSE, FALSE) >>}

SearchClocks ==
    {<< Clock(1, 3072, 90, FALSE, TRUE), Clock(1, 3072, 90, FALSE, TRUE) >>,
     << Clock(0, 3072, 0, FALSE, FALSE), Clock(1, 3072, 0, FALSE, TRUE) >>}

\* four clocks, for either value of clocks->index (line 324)
FourClocks ==
    {[i \in 1..4 |-> Clock(first + i - 1, 3072, 45 * (i - 1), FALSE, FALSE)] :
        first \in {0, 3}}

\* clock lists whose first output has one of the two highest indexes, shifted
\* by a given phase, and whose second output is shifted or searched
HighIndexClocks ==
    {<< Clock(14, 3072, 90, FALSE, FALSE), Clock(0, 3072, 90, FALSE, FALSE) >>,
     << Clock(15, 3072, 90, FALSE, FALSE), Clock(1, 3072, 0, FALSE, TRUE) >>}

DefaultDev == [r5 |-> 65535, r3 |-> 0, r25 |-> 368]
DevStates == [r5 : {0, 65535}, r3 : {0, 65535}, r25 : {0, 368}]

\* the ordinals of the register accesses that may fail
MaxIoFail == 7

PllStart ==
    /\ nanInt = 0 /\ reg23val = 0 /\ N = 0 /\ M = 0 /\ Fvco = <<>>
    /\ now = 0 /\ t2 = 0 /\ done = FALSE /\ errorCode = 0 /\ error = FALSE
    /\ clk = 0 /\ sawDone = FALSE /\ reported = <<>> /\ pret = 0 /\ ppc = "call"
    /\ CodecIdle /\ WfmIdle /\ ConnIdle /\ RefIdle /\ IfaceIdle /\ StreamIdle /\ SpiIdle

\* the frequency plans, on a board that is not polled
PllInitPlans ==
    /\ connOpen \in BOOLEAN
    /\ boardType = LMS_DEV_UNKNOWN
    /\ pllIndex \in PllIndexes
    /\ inputFreq \in InputFreqs
    /\ \E f \in PlanClocks : clocks = PlanOf(f)
    /\ dev = DefaultDev /\ ioFailAt = 0

\* the LimeSDR-QPCIe board, whose status register is polled
PllInitPolled ==
    /\ connOpen = TRUE
    /\ boardType = LMS_DEV_LIMESDR_QPCIE
    /\ pllIndex \in {0, 16}
    /\ inputFreq = 3072
    /\ clocks \in ShiftClocks \cup SearchClocks
    /\ dev = DefaultDev /\ ioFailAt = 0

\* the phase search on a board that is not polled otherwise
PllInitSearch ==
    /\ connOpen = TRUE
    /\ boardType = LMS_DEV_UNKNOWN
    /\ pllIndex = 1
    /\ inputFreq = 3072
    /\ clocks \in SearchClocks
    /\ dev = DefaultDev /\ ioFailAt = 0

\* register contents and failing register accesses
PllInitDevice ==
    /\ connOpen = TRUE
    /\ boardType = LMS_DEV_UNKNOWN
    /\ pllIndex = 1
    /\ inputFreq = 3072
    /\ clocks \in ShiftClocks \cup FourClocks \cup HighIndexClocks
    /\ \/ dev \in DevStates /\ ioFailAt = 0
       \/ dev = DefaultDev /\ ioFailAt \in 1..MaxIoFail

PllInit == PllStart /\ (PllInitPlans \/ PllInitPolled \/ PllInitSearch \/ PllInitDevice)

\* some clock fails the check of lines 162-164
RejectedClockBypassedToo(clks) ==
    \E i \in 1..Len(clks) : clks[i].outFrequency < PLLlowerLimit

RejectedClock(clks) ==
    \E i \in 1..Len(clks) : clks[i].outFrequency < PLLlowerLimit /\ ~clks[i].bypass

\* the register access appended to log succeeds
Ok(log) == ioFailAt # Len(log) + 1

Report(errnum, msg) == [errnum |-> errnum, msg |-> msg]

\* the reads of busyAddr made by one polling loop
Poll == [op |-> "POLL", addr |-> busyAddr]

\* lines 146-197: the checks, the direct clock switched off, the first batch.
\* A read that fails leaves its variable at the value it was initialised to.
SetPllFrequency_Enter ==
    /\ ppc = "call"
    /\ IF ~connOpen
       THEN /\ pret' = ReportError(ENODEV)
            /\ reported' = Append(reported, Report(ENODEV, "connection"))
            /\ ppc' = "done"
            /\ UNCHANGED <<reg23val, regLog>>
       ELSE LET rep == IF pllIndex > 15
                       THEN Append(reported, Report(ERANGE, "PLL index out of range"))
                       ELSE reported
                drct_clk_ctrl_0005 == IF Ok(regLog) THEN dev.r5 ELSE 0
                log3 == regLog \o
                        << ReadRegister(5, dev.r5, Ok(regLog)),
                           WriteRegister(5, ClearBits(drct_clk_ctrl_0005, 2 ^ pllIndex)),
                           ReadRegister(3, dev.r3, ioFailAt # Len(regLog) + 3) >>
                r23 == Reg23Init(dev.r3, pllIndex)
                reg25 == IF Ok(log3) THEN dev.r25 ELSE 368
                log5 == log3 \o
                        << ReadRegister(37, dev.r25, Ok(log3)),
                           WriteRegisters(ResetBatch(reg25, r23, clocks[1].findPhase),
                                          ioFailAt # Len(log3) + 2) >>
            IN IF inputFreq < PLLlowerLimit
               THEN /\ pret' = ReportError(ERANGE)
                    /\ reported' = Append(rep, Report(ERANGE, "input frequency"))
                    /\ ppc' = "done"
                    /\ UNCHANGED <<reg23val, regLog>>
               ELSE IF RejectedClock(clocks)
               THEN /\ pret' = ReportError(ERANGE)
                    /\ reported' = Append(rep, Report(ERANGE, "clock"))
                    /\ ppc' = "done"
                    /\ UNCHANGED <<reg23val, regLog>>
               ELSE IF ioFailAt = Len(regLog) + 3
               THEN /\ pret' = ReportError(ENODEV)
                    /\ reported' = Append(rep, Report(ENODEV, "failed to read register"))
                    /\ ppc' = "done"
                    /\ regLog' = log3
                    /\ UNCHANGED reg23val
               ELSE /\ reg23val' = r23
                    /\ regLog' = log5
                    /\ reported' = rep
                    /\ ppc' = IF boardType = LMS_DEV_LIMESDR_QPCIE
                              THEN "reset" ELSE "configure"
                    /\ UNCHANGED pret
    /\ UNCHANGED <<pllArgs, clocks, nanInt, N, M, Fvco, now, t2, done, errorCode,
                   error, clk, sawDone, codecVars, wfmVars, refVars, chipVars, ifaceVars>>

\* lines 200-211: one round of the loop that waits for the reset, and what
\* follows the loop when the round was the last
SetPllFrequency_PollReset ==
    /\ ppc = "reset"
    /\ \E statusReg \in StatusVals, d \in 1..MaxSleepTicks :
          LET dn == DoneBit(statusReg)
              ec == ErrorCode(statusReg)
              t == now + d
          IN /\ done' = dn /\ errorCode' = ec
             /\ sawDone' = (sawDone \/ dn \/ ec # 0)
             /\ regLog' = IF now = 0 THEN Append(regLog, Poll) ELSE regLog
             /\ IF ~dn /\ ec = 0 /\ t < TimeoutTicks
                THEN /\ now' = t /\ t2' = t
                     /\ UNCHANGED <<reported, pret, ppc>>
                ELSE IF t > TimeoutTicks
                THEN /\ now' = t /\ t2' = t
                     /\ pret' = ReportError(ENODEV)
                     /\ reported' = Append(reported, Report(ENODEV, "PLLRST timeout"))
                     /\ ppc' = "done"
                ELSE IF ec # 0
                THEN /\ now' = t /\ t2' = t
                     /\ pret' = ReportError(EBUSY)
                     /\ reported' = Append(reported, Report(EBUSY, "error resetting PLL"))
                     /\ ppc' = "done"
                ELSE /\ now' = 0 /\ t2' = 0
                     /\ ppc' = "configure"
                     /\ UNCHANGED <<reported, pret>>
    /\ UNCHANGED <<pllArgs, clocks, nanInt, reg23val, N, M, Fvco, error, clk,
                   codecVars, wfmVars, refVars, chipVars, ifaceVars>>

\* clocks[i].rd_actualFrequency for every clock (line 320)
WithActualFrequency(clks, inFreq, m, n, ub) ==
    [i \in 1..Len(clks) |->
        [clks[i] EXCEPT !.rd_actualFrequency =
            ActualFrequency(inFreq, m, n,
                OutputDivider(ActualVco(inFreq, m, n), clks[i].outFrequency, ub))]]

\* lines 213-330: the divider search, the range check, the second batch
SetPllFrequency_Configure ==
    /\ ppc = "configure"
    /\ \E sel \in {SelectDividers(clocks, inputFreq)} :
       LET fv == ActualVco(inputFreq, sel.M, sel.N)
       IN /\ N' = sel.N /\ M' = sel.M /\ Fvco' = fv
          /\ IF VcoRejected(fv)
             THEN /\ pret' = ReportError(ERANGE)
                  /\ reported' = Append(reported, Report(ERANGE, "VCO out of range"))
                  /\ ppc' = "done"
                  /\ UNCHANGED <<nanInt, clocks, regLog, clk>>
             ELSE \E ub \in (IF IsNaN(fv) THEN UndefinedInts ELSE {0}) :
                  /\ nanInt' = ub
                  /\ regLog' = Append(regLog,
                        WriteRegisters(ConfigBatch(clocks, inputFreq, reg23val,
                                                   sel.M, sel.N, ub), Ok(regLog)))
                  /\ clocks' = WithActualFrequency(clocks, inputFreq, sel.M, sel.N, ub)
                  /\ clk' = 1
                  /\ ppc' = IF boardType = LMS_DEV_LIMESDR_QPCIE
                            THEN "config" ELSE "phase"
                  /\ UNCHANGED <<reported, pret>>
    /\ UNCHANGED <<pllArgs, reg23val, now, t2, done, errorCode, error, sawDone,
                   codecVars, wfmVars, refVars, chipVars, ifaceVars>>

\* lines 333-344: one round of the loop that waits for the configuration, and
\* what follows the loop when the round was the last
SetPllFrequency_PollConfig ==
    /\ ppc = "config"
    /\ \E statusReg \in StatusVals, d \in 1..MaxSleepTicks :
          LET dn == DoneBit(statusReg)
              ec == ErrorCode(statusReg)
          IN /\ done' = dn /\ errorCode' = ec
             /\ sawDone' = (sawDone \/ dn \/ ec # 0)
             /\ regLog' = IF now = 0 THEN Append(regLog, Poll) ELSE regLog
             /\ IF ~dn /\ ec = 0 /\ now < TimeoutTicks
                THEN /\ t2' = now /\ now' = now + d
                     /\ UNCHANGED <<reported, pret, ppc>>
                ELSE IF now > TimeoutTicks
                THEN /\ t2' = now /\ now' = now + d
                     /\ pret' = ReportError(ENODEV)
                     /\ reported' = Append(reported, Report(ENODEV, "PLLCFG timeout"))
                     /\ ppc' = "done"
                ELSE IF ec # 0
                THEN /\ t2' = now /\ now' = now + d
                     /\ pret' = ReportError(EBUSY)
                     /\ reported' = Append(reported, Report(EBUSY, "error configuring PLLCFG"))
                     /\ ppc' = "done"
                ELSE /\ now' = 0 /\ t2' = 0
                     /\ ppc' = "phase"
                     /\ UNCHANGED <<reported, pret>>
    /\ UNCHANGED <<pllArgs, clocks, nanInt, reg23val, N, M, Fvco, error, clk,
                   codecVars, wfmVars, refVars, chipVars, ifaceVars>>

\* the write that ends SetPllClock (lines 131-133) and the phase search
\* (lines 396-398)
StopPhase(r23) == << << 35, ClearBits(r23, PHCFG_START) >> >>

\* a batch appended to log, and the EIO reported when SetPllClock fails to
\* write it (lines 111-112, 132-133)
WriteBatch(log, batch) == Append(log, WriteRegisters(batch, Ok(log)))
WriteReport(log, rep) ==
    IF Ok(log) THEN rep ELSE Append(rep, Report(EIO, "failed to write registers"))

\* lines 346-377: the next clock of the phase loop, up to the first status
\* read: SetPllClock (lines 93-117) for a given phase, the start of the search
\* otherwise; on a board that is not polled SetPllClock runs to its end
SetPllFrequency_PhaseStart ==
    /\ ppc = "phase"
    /\ LET c == clocks[clk]
           C == OutputDivider(Fvco, c.outFrequency, nanInt)
       IN IF c.findPhase = FALSE
          THEN LET nSteps == FixedSteps(c.phaseShift_deg, C, nanInt)
                   r23 == PhaseReg23(reg23val, c.index, nSteps)
                   log1 == WriteBatch(regLog, PhaseBatch(reg23val, c.index, nSteps))
                   rep1 == WriteReport(regLog, reported)
               IN /\ reg23val' = r23
                  /\ IF boardType = LMS_DEV_LIMESDR_QPCIE
                     THEN /\ regLog' = log1
                          /\ reported' = rep1
                          /\ ppc' = "shift"
                          /\ UNCHANGED <<clk, pret>>
                     ELSE /\ regLog' = WriteBatch(log1, StopPhase(r23))
                          /\ reported' = WriteReport(log1, rep1)
                          /\ IF clk = Len(clocks)
                             THEN pret' = 0 /\ ppc' = "done" /\ UNCHANGED clk
                             ELSE clk' = clk + 1 /\ UNCHANGED <<pret, ppc>>
          ELSE LET nSteps == SearchSteps(C, nanInt)
               IN /\ reg23val' = SearchReg23(reg23val, c.index)
                  /\ regLog' = WriteBatch(regLog, SearchBatch(reg23val, c.index, nSteps))
                  /\ ppc' = "search"
                  /\ UNCHANGED <<reported, clk, pret>>
    /\ UNCHANGED <<pllArgs, clocks, nanInt, N, M, Fvco, now, t2, done, errorCode,
                   error, sawDone, codecVars, wfmVars, refVars, chipVars, ifaceVars>>

\* lines 118-134: one round of the loop of SetPllClock, and what follows the
\* loop when the round was the last; SetPllFrequency drops the value
\* SetPllClock returns (line 355)
SetPllFrequency_PollPhase ==
    /\ ppc = "shift"
    /\ \E statusReg \in StatusVals, d \in 1..MaxSleepTicks :
          LET dn == DoneBit(statusReg)
              ec == ErrorCode(statusReg)
              last == IF clk = Len(clocks)
                      THEN pret' = 0 /\ ppc' = "done" /\ UNCHANGED clk
                      ELSE clk' = clk + 1 /\ ppc' = "phase" /\ UNCHANGED pret
          IN /\ done' = dn /\ errorCode' = ec
             /\ sawDone' = (sawDone \/ dn \/ ec # 0)
             /\ IF ~dn /\ ec = 0 /\ now < TimeoutTicks
                THEN /\ t2' = now /\ now' = now + d
                     /\ regLog' = IF now = 0 THEN Append(regLog, Poll) ELSE regLog
                     /\ UNCHANGED <<reported, clk, pret, ppc>>
                ELSE LET log1 == IF now = 0 THEN Append(regLog, Poll) ELSE regLog
                     IN /\ now' = 0 /\ t2' = 0
                        /\ last
                        /\ IF now > TimeoutTicks
                           THEN /\ reported' = Append(reported,
                                                      Report(ENODEV, "PHCFG timeout"))
                                /\ regLog' = log1
                           ELSE IF ec # 0
                           THEN /\ reported' = Append(reported,
                                                 Report(EBUSY, "error configuring PHCFG"))
                                /\ regLog' = log1
                           ELSE /\ regLog' = WriteBatch(log1, StopPhase(reg23val))
                                /\ reported' = WriteReport(log1, reported)
    /\ UNCHANGED <<pllArgs, clocks, nanInt, reg23val, N, M, Fvco, error,
                   codecVars, wfmVars, refVars, chipVars, ifaceVars>>

\* a search that reports success whenever done was read
SearchResultIgnoresError(dn, er) == IF ~dn THEN -1 ELSE 0

\* return (!done) || error ? -1 : 0 (line 399)
SearchResult(dn, er) == IF ~dn \/ er THEN -1 ELSE 0

\* lines 383-399: one round of the loop of the phase search, and what follows
\* the loop when the round was the last
SetPllFrequency_PollSearch ==
    /\ ppc = "search"
    /\ \E statusReg \in StatusVals, d \in 1..MaxSleepTicks :
          LET dn == SearchDone(statusReg)
              er == SearchError(statusReg)
              log1 == IF now = 0 THEN Append(regLog, Poll) ELSE regLog
          IN /\ done' = dn /\ error' = er
             /\ sawDone' = (sawDone \/ DoneBit(statusReg) \/ ErrorCode(statusReg) # 0)
             /\ t2' = now /\ now' = now + d
             /\ IF ~dn /\ now < TimeoutTicks
                THEN /\ regLog' = log1
                     /\ UNCHANGED <<pret, ppc>>
                ELSE /\ regLog' = WriteBatch(log1, StopPhase(reg23val))
                     /\ pret' = SearchResult(dn, er)
                     /\ ppc' = "done"
    /\ UNCHANGED <<pllArgs, clocks, nanInt, reg23val, N, M, Fvco, errorCode, clk,
                   reported, codecVars, wfmVars, refVars, chipVars, ifaceVars>>

PllNext ==
    \/ SetPllFrequency_Enter
    \/ SetPllFrequency_PollReset
    \/ SetPllFrequency_Configure
    \/ SetPllFrequency_PollConfig
    \/ SetPllFrequency_PhaseStart
    \/ SetPllFrequency_PollPhase
    \/ SetPllFrequency_PollSearch

SpecPll == PllInit /\ [][PllNext]_vars

-----------------------------------------------------------------------------
(* What SetPllFrequency guarantees *)

\* the divider registers: 0x0026, 0x0027, 0x0028, 0x002A, 0x002B, 0x002E+i
DividerRegs == {38, 39, 40, 42, 43} \cup {46 + i : i \in 0..15}

\* log holds a write to one of addrs
WritesTo(log, addrs) ==
    \E k \in 1..Len(log) :
        \/ log[k].op = "W" /\ log[k].addr \in addrs
        \/ log[k].op = "WB" /\ \E j \in 1..Len(log[k].batch) : log[k].batch[j][1] \in addrs

HasWrite(log) == \E k \in 1..Len(log) : log[k].op \in {"W", "WB"}

DividersWritten == WritesTo(regLog, DividerRegs)

\* the value written to the divider register addr
DividerValue(addr) ==
    LET k == CHOOSE k \in 1..Len(regLog) :
                 regLog[k].op = "WB" /\ \E j \in 1..Len(regLog[k].batch) :
                                            regLog[k].batch[j][1] = addr
        j == CHOOSE j \in 1..Len(regLog[k].batch) : regLog[k].batch[j][1] = addr
    IN regLog[k].batch[j][2]

AllAbove5MHz == \A i \in 1..Len(clocks) : clocks[i].outFrequency >= PLLlowerLimit
NoneBypassed == \A i \in 1..Len(clocks) : ~clocks[i].bypass

\* 600e6 <= f <= 1300e6
VcoInRange(f) == RatLeq(<< vcoMin, 1 >>, f) /\ RatLeq(f, << vcoMax, 1 >>)

LastReport == IF reported = <<>> THEN "" ELSE reported[Len(reported)].msg

\* C2: whenever a divider configuration is written for an input frequency of
\* at least 5 MHz and non-bypassed outputs of at least 5 MHz, the selected
\* dividers are in 1 <= N <= 255 and 1 <= M <= 255.
C2_DividersInRange ==
    (DividersWritten /\ inputFreq >= PLLlowerLimit /\ NoneBypassed /\ AllAbove5MHz) =>
        (1 <= N /\ N <= 255 /\ 1 <= M /\ M <= 255)

\* C3: the divider registers are written only when input*M/N lies in
\* [600e6, 1300e6]; when it lies outside, the call returns a range error and
\* has written none of them.
C3_WrittenOnlyInRange ==
    /\ DividersWritten => VcoInRange(Fvco)
    /\ (Fvco # <<>> /\ ~VcoInRange(Fvco) /\ ppc = "done") =>
           (pret = ERANGE /\ ~DividersWritten)

\* c is Fvco/out rounded to the nearest integer
IsRounded(c, f, out) ==
    LET d == f[1] - c * f[2] * out
    IN 2 * (IF d < 0 THEN 0 - d ELSE d) <= f[2] * out

\* C4: for every configured output i, with C = round(Fvco/outFrequency), the
\* value written to 0x002E+i holds ceil(C/2) in bits 15:8 and floor(C/2) in
\* bits 7:0, and rd_actualFrequency is (input*M/N)/C.
C4_OutputCounters ==
    DividersWritten =>
        \A i \in 1..Len(clocks) :
            LET v == DividerValue(46 + (i - 1))
                hi == (v \div 256) % 256
                lo == v % 256
                C == hi + lo
            IN /\ ~IsNaN(Fvco)
               /\ IsRounded(C, Fvco, clocks[i].outFrequency)
               /\ hi = (C + 1) \div 2 /\ lo = C \div 2
               /\ clocks[i].rd_actualFrequency = << inputFreq * M, N * C >>

\* two outputs at 30.72 MHz from an input of 30.72 MHz, the search done
C5_Case ==
    /\ inputFreq = 3072 /\ Len(clocks) = 2 /\ Fvco # <<>>
    /\ \A i \in 1..2 : clocks[i].outFrequency = 3072 /\ ~clocks[i].bypass

\* f is within 0.01% of 30.72 MHz
NearRate(f) ==
    LET d == f[1] - 3072 * f[2]
    IN f[2] > 0 /\ (IF d < 0 THEN 0 - d ELSE d) <= (3072 * f[2]) \div 10000

\* C5: for an input of 30.72 MHz and two outputs at 30.72 MHz the VCO
\* frequency is a whole multiple of 30.72 MHz inside [600e6, 1300e6], and
\* both outputs report a frequency within 0.01% of 30.72 MHz.
C5_Example3072 ==
    C5_Case =>
        /\ VcoInRange(Fvco)
        /\ \E k \in 1..(vcoMax \div 3072) : Fvco[1] = k * 3072 * Fvco[2]
        /\ \A i \in 1..2 : NearRate(clocks[i].rd_actualFrequency)

C5_Witness ==
    /\ C5_Case /\ ppc = "done" /\ pret = 0
    /\ N = 6 /\ M = 252 /\ Fvco = << 3072 * 252, 6 >>
    /\ clocks[2].rd_actualFrequency = << 3072 * 252, 6 * 42 >>

\* some output that is not bypassed is below 5 MHz
NonBypassedBelow ==
    \E i \in 1..Len(clocks) : clocks[i].outFrequency < 500 /\ ~clocks[i].bypass

\* valid arguments: PLL index, input frequency, non-bypassed outputs
ValidArguments ==
    pllIndex <= 15 /\ inputFreq >= 500 /\ ~NonBypassedBelow

\* C6: on an open connection and with valid arguments (a frequency plan the
\* call does not reject), when no status read shows the done bit or a
\* nonzero error code, the call returns the timeout
\* error once more than 3 s, and no more than 3 s and a polling round, have
\* passed, and never returns success.
C6_TimeoutWithoutDone ==
    (ppc = "done" /\ connOpen /\ ValidArguments /\ ioFailAt = 0 /\ ~sawDone
       /\ LastReport # "VCO out of range") =>
        /\ pret = ENODEV
        /\ LastReport \in {"PLLRST timeout", "PLLCFG timeout", "PHCFG timeout"}
        /\ t2 > TimeoutTicks /\ t2 <= TimeoutTicks + MaxSleepTicks

\* the same on the one board whose status register the call polls at every stage
C6_PolledBoardSucceeds ==
    /\ ppc = "done" /\ connOpen /\ ValidArguments /\ ioFailAt = 0 /\ ~sawDone
    /\ boardType = LMS_DEV_LIMESDR_QPCIE
    /\ \A i \in 1..Len(clocks) : clocks[i].findPhase = FALSE
    /\ pret = 0

\* C7: a call with pllIndex > 15 returns an invalid-argument error and has
\* written no register.
C7_PllIndexRejected ==
    (ppc = "done" /\ connOpen /\ pllIndex > 15) =>
        (pret = ERANGE /\ ~HasWrite(regLog))

\* the input or a non-bypassed output is below 5 MHz
BelowLimit == inputFreq < 500 \/ NonBypassedBelow

\* C8 as stated: a call with the input or a non-bypassed output below 5 MHz
\* returns a range error and has accessed no register; an output below
\* 5 MHz that is bypassed does not cause the rejection.
C8_Original ==
    ppc = "done" =>
        /\ BelowLimit => (pret = ERANGE /\ regLog = <<>>)
        /\ ~BelowLimit => LastReport \notin {"input frequency", "clock"}

\* C8: on a connection that is set and open, a call with the input or a
\* non-bypassed output below 5 MHz returns a range error and has accessed no
\* register; with only bypassed outputs below 5 MHz the call is not rejected
\* for its frequencies and goes on to the registers.
C8_RangeRejected ==
    (ppc = "done" /\ connOpen) =>
        /\ BelowLimit => (pret = ERANGE /\ regLog = <<>>
                          /\ LastReport \in {"input frequency", "clock"})
        /\ ~BelowLimit => (LastReport \notin {"input frequency", "clock"}
                           /\ regLog # <<>>)

C8_Witness ==
    /\ ppc = "done" /\ connOpen /\ inputFreq >= PLLlowerLimit
    /\ Len(clocks) = 2
    /\ clocks[1].outFrequency < PLLlowerLimit /\ clocks[1].bypass
    /\ clocks[2].outFrequency < PLLlowerLimit /\ ~clocks[2].bypass
    /\ pret = ERANGE /\ regLog = <<>>

\* a bypassed output below 5 MHz alone: the divider registers are written
C8_BypassedExempt ==
    /\ ppc = "done" /\ connOpen /\ pret = 0
    /\ \E i \in 1..Len(clocks) : clocks[i].outFrequency < PLLlowerLimit /\ clocks[i].bypass
    /\ DividersWritten

-----------------------------------------------------------------------------
(* The phase stage: SetPllClock and the phase search *)

\* the positions of log that write addr
WritersOf(log, addr) ==
    {k \in 1..Len(log) :
        \/ log[k].op = "W" /\ log[k].addr = addr
        \/ log[k].op = "WB" /\ \E j \in 1..Len(log[k].batch) : log[k].batch[j][1] = addr}

\* the value of the last write of log to addr
LastWriteTo(log, addr) ==
    LET k == CHOOSE k \in WritersOf(log, addr) : \A h \in WritersOf(log, addr) : h <= k
        b == log[k].batch
        j == CHOOSE j \in 1..Len(b) : b[j][1] = addr /\ \A h \in j+1..Len(b) : b[h][1] # addr
    IN IF log[k].op = "W" THEN log[k].val ELSE b[j][2]

\* some batch of log wrote 0x0023 with PHCFG_START set
PhaseStarted(log) ==
    \E k \in 1..Len(log) :
        log[k].op = "WB" /\ \E j \in 1..Len(log[k].batch) :
            log[k].batch[j][1] = 35 /\ BitAnd(log[k].batch[j][2], PHCFG_START) # 0

\* C12: when a call that started a phase shift or a phase search returns,
\* whether the polling ended with done, with a timeout or with a hardware
\* error, the last write of register 0x0023 has PHCFG_START cleared.
C12_StartBitCleared ==
    (ppc = "done" /\ PhaseStarted(regLog)) =>
        BitAnd(LastWriteTo(regLog, 35), PHCFG_START) = 0

\* the same where the claim holds: the phase search, and a shift whose
\* polling ended with done
C12_SearchCleared ==
    /\ ppc = "done" /\ PhaseStarted(regLog)
    /\ clocks[Len(clocks)].findPhase
    /\ ~done
    /\ BitAnd(LastWriteTo(regLog, 35), PHCFG_START) = 0

\* the positions of log where a batch write failed at the transport
FailedBatches(log) == {k \in 1..Len(log) : log[k].op = "WB" /\ ~log[k].ok}

\* C13: when a batch write of the call fails at the transport, the failed
\* batch is the last register access of the call, and the call returns an
\* error.
C13_FailedBatchAborts ==
    \A k \in FailedBatches(regLog) :
        /\ k = Len(regLog)
        /\ ppc = "done" => pret # 0

\* a call whose configuration batch failed, went on and returned 0
C13_GoesOn ==
    /\ ppc = "done" /\ pret = 0
    /\ \E k \in FailedBatches(regLog) : k < Len(regLog)

\* a polling stage of the call ended in a timeout or with a nonzero hardware
\* error code
StageFailed ==
    \E k \in 1..Len(reported) :
        reported[k].msg \in {"PLLRST timeout", "error resetting PLL",
                             "PLLCFG timeout", "error configuring PLLCFG",
                             "PHCFG timeout", "error configuring PHCFG"}

\* C14: a call one of whose polling stages (PLL reset, PLL configuration,
\* phase shift through SetPllClock) ended in a timeout or with a nonzero
\* hardware error code returns a nonzero status.
C14_StageFailureReturned ==
    (ppc = "done" /\ StageFailed) => pret # 0

\* the reset and the configuration stage do return their failures
C14_ResetConfigReturned ==
    /\ ppc = "done" /\ pret \in {ENODEV, EBUSY}
    /\ LastReport \in {"PLLRST timeout", "error resetting PLL",
                       "PLLCFG timeout", "error configuring PLLCFG"}

-----------------------------------------------------------------------------
(* The start of the configuration *)

\* every write of log, in order, as <<address, value>>
RECURSIVE WritesOf(_)
WritesOf(log) ==
    IF log = <<>> THEN <<>>
    ELSE LET e == log[Len(log)]
             before == WritesOf(SubSeq(log, 1, Len(log) - 1))
         IN IF e.op = "W" THEN Append(before, << e.addr, e.val >>)
            ELSE IF e.op = "WB" THEN before \o e.batch
            ELSE before

\* w writes 0x0023 with PLLCFG_START set
ArmsConfig(w) == w[1] = 35 /\ BitAnd(w[2], PLLCFG_START) # 0

\* the batches of log that arm PLLCFG_START
ArmingBatches(log) ==
    {k \in 1..Len(log) :
        log[k].op = "WB" /\ \E j \in 1..Len(log[k].batch) : ArmsConfig(log[k].batch[j])}

\* the divider batch: its addresses are 0x0023, 0x0026, 0x002A, 0x002B,
\* 0x002E+i for every i below clockCount, 0x0027, 0x0028 and 0x0023, in this
\* order
IsDividerBatch(b) ==
    /\ Len(b) = Len(clocks) + 7
    /\ b[1][1] = 35 /\ b[2][1] = 38 /\ b[3][1] = 42 /\ b[4][1] = 43
    /\ \A i \in 1..Len(clocks) : b[4 + i][1] = 46 + i - 1
    /\ b[Len(clocks) + 5][1] = 39 /\ b[Len(clocks) + 6][1] = 40
    /\ b[Len(clocks) + 7][1] = 35

\* C17: a call writes 0x0023 with PLLCFG_START set at most once; the write is
\* the last entry of the divider batch, after the writes of 0x0026, 0x002A,
\* 0x002B, every 0x002E+i, 0x0027 and 0x0028; and no divider register is
\* written after it.
C17_StartArmedOnceLast ==
    LET w == WritesOf(regLog)
        armed == {j \in 1..Len(w) : ArmsConfig(w[j])}
    IN /\ Cardinality(armed) <= 1
       /\ \A k \in ArmingBatches(regLog) :
              /\ IsDividerBatch(regLog[k].batch)
              /\ \A j \in 1..Len(regLog[k].batch) - 1 : ~ArmsConfig(regLog[k].batch[j])
       /\ \A j \in armed : \A h \in j + 1..Len(w) : w[h][1] \notin DividerRegs

C17_Witness ==
    /\ ppc = "done" /\ pret = 0
    /\ ArmingBatches(regLog) # {}
    /\ \E k \in ArmingBatches(regLog) : k < Len(regLog)
    /\ Len(clocks) = 2

-----------------------------------------------------------------------------
(* The phase search *)

\* the call went through the phase search: a batch armed PHCFG_START with
\* PHCFG_MODE set
SearchStarted(log) ==
    \E k \in 1..Len(log) :
        /\ log[k].op = "WB"
        /\ \E j \in 1..Len(log[k].batch) :
               /\ log[k].batch[j][1] = 35
               /\ BitAnd(log[k].batch[j][2], PHCFG_MODE) # 0
               /\ BitAnd(log[k].batch[j][2], PHCFG_START) # 0

\* C18: a call that went through the phase search has polled 0x0021 and then
\* written 0x0023 with PHCFG_START cleared as its last access; it returns 0
\* when the last status read had bit 2 (done) set and bit 3 (error) clear,
\* and -1 otherwise.
C18_SearchResult ==
    (ppc = "done" /\ SearchStarted(regLog)) =>
        /\ Len(regLog) >= 2
        /\ regLog[Len(regLog) - 1] = Poll
        /\ regLog[Len(regLog)].op = "WB"
        /\ Len(regLog[Len(regLog)].batch) = 1
        /\ regLog[Len(regLog)].batch[1][1] = 35
        /\ BitAnd(regLog[Len(regLog)].batch[1][2], PHCFG_START) = 0
        /\ pret = (IF done /\ ~error THEN 0 ELSE -1)
        /\ (~done) => t2 >= TimeoutTicks

\* the search ended with done and the error bit in the same status read
C18_Witness ==
    /\ ppc = "done" /\ SearchStarted(regLog)
    /\ done /\ error /\ pret = -1

\* the search timed out, and the search succeeded
C18_TimedOut ==
    ppc = "done" /\ SearchStarted(regLog) /\ ~done /\ ~error /\ pret = -1
C18_Succeeded ==
    ppc = "done" /\ SearchStarted(regLog) /\ done /\ ~error /\ pret = 0

-----------------------------------------------------------------------------
(* The phase shift through SetPllClock *)

\* the batches of SetPllClock in log (lines 98-109), in order
PhaseBatchesOf(log) ==
    SelectSeq(log, LAMBDA e : e.op = "WB" /\ Len(e.batch) = 4 /\ e.batch[2][1] = 36)

\* num/den rounded to the nearest integer, den > 0
RoundNearest(num, den) == (2 * num + den) \div (2 * den)

\* the divider C of output i as the divider batch wrote it to 0x002E+i
WrittenDivider(i) ==
    LET v == DividerValue(46 + i - 1) IN (v \div 256) + (v % 256)

\* the step count of output i: phaseShift_deg / (45 / C) to the nearest integer
NearestSteps(i) == RoundNearest(clocks[i].phaseShift_deg * WrittenDivider(i), 45)

\* the call shifted the phase of every output through SetPllClock
AllShifted ==
    /\ ppc = "done" /\ pret = 0 /\ ioFailAt = 0 /\ VcoInRange(Fvco)
    /\ \A i \in 1..Len(clocks) : ~clocks[i].findPhase
    /\ Len(PhaseBatchesOf(regLog)) = Len(clocks)

\* C19: for every output shifted through SetPllClock, with a positive or a
\* negative phase shift, the value written to 0x0024 is the absolute value of
\* phaseShift_deg / (45 / C) rounded to the nearest integer, and PHCFG_UPDN is
\* set in the value written to 0x0023 exactly when that step count is not
\* negative.
C19_StepsRounded ==
    AllShifted =>
        \A i \in 1..Len(clocks) :
            LET b == PhaseBatchesOf(regLog)[i].batch
            IN /\ b[2][2] = Abs(NearestSteps(i))
               /\ (BitAnd(b[4][2], PHCFG_UPDN) # 0) = (NearestSteps(i) >= 0)

\* the same for the outputs whose phase shift is not negative
C19_NonNegativeRounded ==
    AllShifted =>
        \A i \in 1..Len(clocks) :
            clocks[i].phaseShift_deg >= 0 =>
                LET b == PhaseBatchesOf(regLog)[i].batch
                IN /\ b[2][2] = NearestSteps(i)
                   /\ BitAnd(b[4][2], PHCFG_UPDN) # 0

-----------------------------------------------------------------------------
(* The divider search *)

\* the candidates whose score is the maximum score
MaxScoreVCOs ==
    LET keys == AvailableVCOs(clocks)
        best == BestScore(clocks, keys)
    IN {keys[i] : i \in {j \in 1..Len(keys) : Score(clocks, keys[j]) = best}}

\* |candidate - inputFreq*Mtemp/Ntemp| for the candidate vco
DeviationOf(vco) == Deviation(inputFreq, vco, DividersFor(inputFreq, vco))

\* of pairs <<candidate, deviation>>, the candidates whose deviation is the
\* smallest and within the initial bestDeviation of line 249
ClosestIn(pairs) ==
    {p[1] : p \in {q \in pairs : /\ RatLeq(q[2], << InitialDeviation, 1 >>)
                                 /\ \A r \in pairs : RatLeq(q[2], r[2])}}

\* the candidates of maximum score whose deviation is the smallest
ClosestVCOs == ClosestIn({<< v, DeviationOf(v) >> : v \in MaxScoreVCOs})

\* the search of the call has just selected N and M
JustSelected ==
    /\ Fvco # <<>>
    /\ \/ ppc = "phase" /\ clk = 1
       \/ ppc = "config" /\ now = 0
       \/ ppc = "done" /\ LastReport = "VCO out of range"

\* the first and the last of a set of candidates in ascending order
FirstOf(S) == CHOOSE v \in S : \A w \in S : v <= w
LastOf(S) == CHOOSE v \in S : \A w \in S : w <= v

\* the claim as stated: among the closest candidates of maximum score the
\* first in ascending order gives N and M
C20_Original ==
    JustSelected =>
        \A closest \in {ClosestVCOs} :
            closest # {} => << N, M >> = DividersFor(inputFreq, FirstOf(closest))

\* C20: N and M come from a candidate of maximum score with the smallest
\* deviation, and among several such candidates from the last one in
\* ascending order, the highest frequency.
C20_LastClosestWins ==
    JustSelected =>
        \A closest \in {ClosestVCOs} :
            closest # {} => << N, M >> = DividersFor(inputFreq, LastOf(closest))

\* several closest candidates that give different dividers, and candidates
\* below the maximum score
C20_Witness ==
    /\ JustSelected
    /\ \E closest \in {ClosestVCOs} :
           /\ Cardinality(closest) > 1
           /\ DividersFor(inputFreq, FirstOf(closest))
                  # DividersFor(inputFreq, LastOf(closest))
           /\ << N, M >> = DividersFor(inputFreq, LastOf(closest))
    /\ \E keys \in {AvailableVCOs(clocks)} :
           MaxScoreVCOs # {keys[i] : i \in 1..Len(keys)}

-----------------------------------------------------------------------------
(* DetectRefClk: the reference clock from the frequency counter *)

\* connection->WriteRegister(addr, value) where the caller looks at the result
WriteRegisterResult(addr, value, ok) ==
    [op |-> "W", addr |-> addr, val |-> value, ok |-> ok]

\* connection->ReadRegisters(addrs, values, n): vals is what the device answered
ReadRegisters(addrs, values, ok) ==
    [op |-> "RB", addrs |-> addrs, vals |-> values, ok |-> ok]

\* const double fx3Cnt, clkTbl[] (lines 774-775), in Hz
fx3Cnt == 16777210
clkTbl == << 30720000, 38400000, 40000000, 52000000 >>

\* double delta = 100e6 (line 809)
InitialDelta == 100000000

\* elapsed_seconds.count() > 0.5 (line 796), in ticks of 100 ms
RefTimeoutTicks == 5

\* the longest one round of the waiting loop takes, in ticks
MaxReadTicks == 2

\* vals2[0] | (vals2[1] << 16) (line 805)
CounterValueOf(v) == BitOr(v[1], Shl(v[2], 16))

\* count *= fx3Clk / fx3Cnt (line 806): exact when the quotient is a whole
\* number and the product is below 2^53
RawEstimate(v, ratio) == CounterValueOf(v) * ratio

RECURSIVE TableScan(_, _, _)
\* the loop of lines 811-815: the value of i when it ends, i counted from 0
TableScan(count, i, delta) ==
    IF i < Len(clkTbl)
    THEN IF delta < Abs(count - clkTbl[i + 1])
         THEN i
         ELSE TableScan(count, i + 1, Abs(count - clkTbl[i + 1]))
    ELSE i

\* what clkTbl[-1] reads, the eight bytes in front of the table: the build
\* decides; zero and the constant declared in front of the table stand for it
UndefinedDoubles == {0, fx3Cnt}

\* the values register 0x65 is read with
CompletedVals == {0, 3, 4, 7}

\* the estimates the counter readings of the model are taken from, in Hz
EstimatesHz ==
    {0, 30720000, 34560000, 36000000, 38400000, 39200000, 40000000, 46000000,
     52000000, 60000000, 130720000, 130720002, 2000000004}

\* fx3Clk / fx3Cnt: an FX3 clock of 16.77721 MHz and of 100.66326 MHz
Fx3Ratios == {1, 6}

RefInit ==
    /\ fx3Ratio \in Fx3Ratios
    /\ \E e \in EstimatesHz :
          vals2 = << (e \div fx3Ratio) % 65536, (e \div fx3Ratio) \div 65536 >>
    /\ elapsed = 0 /\ rret = 0 /\ rpc = "call"
    /\ ioFailAt \in 0..MaxIoFail
    /\ connOpen = TRUE /\ boardType = LMS_DEV_UNKNOWN /\ pllIndex = 0 /\ inputFreq = 0
    /\ clocks = <<>> /\ dev = <<>> /\ nanInt = 0
    /\ reg23val = 0 /\ N = 0 /\ M = 0 /\ Fvco = <<>> /\ now = 0 /\ t2 = 0
    /\ done = FALSE /\ errorCode = 0 /\ error = FALSE /\ clk = 0 /\ sawDone = FALSE
    /\ reported = <<>> /\ pret = 0 /\ ppc = "idle"
    /\ CodecIdle /\ WfmIdle /\ IfaceIdle /\ ConnIdle /\ StreamIdle /\ SpiIdle

\* lines 776-782: the counter cleared and started
DetectRefClk_Start ==
    /\ rpc = "call"
    /\ LET log1 == Append(regLog, WriteRegisters(<< << 97, 0 >>, << 99, 0 >> >>,
                                                 Ok(regLog)))
           log2 == Append(log1, WriteRegisterResult(97, 4, Ok(log1)))
       IN IF ~Ok(regLog)
          THEN regLog' = log1 /\ rret' = -1 /\ rpc' = "done"
          ELSE IF ~Ok(log1)
          THEN regLog' = log2 /\ rret' = -1 /\ rpc' = "done"
          ELSE regLog' = log2 /\ rpc' = "wait" /\ UNCHANGED rret
    /\ UNCHANGED <<fx3Ratio, vals2, elapsed, codecVars, wfmVars, pllVars, ifaceVars, chipVars>>

\* lines 785-798: one round of the loop that waits for the counter
DetectRefClk_Wait ==
    /\ rpc = "wait"
    /\ \E completed \in CompletedVals, d \in 1..MaxReadTicks :
          /\ regLog' = Append(regLog, ReadRegister(101, completed, Ok(regLog)))
          /\ elapsed' = elapsed + d
          /\ IF ~Ok(regLog)
             THEN rret' = -1 /\ rpc' = "done"
             ELSE IF BitAnd(completed, 4) # 0
             THEN rpc' = "count" /\ UNCHANGED rret
             ELSE IF elapsed + d > RefTimeoutTicks
             THEN rret' = -1 /\ rpc' = "done"
             ELSE UNCHANGED <<rret, rpc>>
    /\ UNCHANGED <<fx3Ratio, vals2, codecVars, wfmVars, pllVars, ifaceVars, chipVars>>

\* lines 800-818: the counter read, the estimate, the table entry
DetectRefClk_Finish ==
    /\ rpc = "count"
    /\ regLog' = Append(regLog, ReadRegisters(<< 114, 115 >>, vals2, Ok(regLog)))
    /\ rpc' = "done"
    /\ IF ~Ok(regLog)
       THEN rret' = -1
       ELSE LET i == TableScan(RawEstimate(vals2, fx3Ratio), 0, InitialDelta)
            IN IF i = 0 THEN rret' \in UndefinedDoubles ELSE rret' = clkTbl[i]
    /\ UNCHANGED <<fx3Ratio, vals2, elapsed, codecVars, wfmVars, pllVars, ifaceVars, chipVars>>

RefNext == DetectRefClk_Start \/ DetectRefClk_Wait \/ DetectRefClk_Finish

SpecRefClk == RefInit /\ [][RefNext]_vars

\* the call read the counter and returned
CounterRead ==
    /\ rpc = "done"
    /\ regLog[Len(regLog)].op = "RB" /\ regLog[Len(regLog)].ok

\* entry is the table entry closest to est
ClosestEntry(entry, est) ==
    /\ \E j \in 1..Len(clkTbl) : entry = clkTbl[j]
    /\ \A j \in 1..Len(clkTbl) : Abs(est - entry) <= Abs(est - clkTbl[j])

\* C11: a call that read the counter returns the table entry with the
\* smallest absolute deviation from the estimate count*fx3Clk/16777210; an
\* estimate of 40 MHz gives 40e6 and an estimate of 36 MHz gives 38.4e6.
C11_NearestEntry ==
    CounterRead =>
        LET est == RawEstimate(vals2, fx3Ratio)
        IN /\ ClosestEntry(rret, est)
           /\ est = 40000000 => rret = 40000000
           /\ est = 36000000 => rret = 38400000

\* the same for the estimates of at most 130.72 MHz
C11_NearestUpTo130 ==
    (CounterRead /\ RawEstimate(vals2, fx3Ratio) <= clkTbl[1] + InitialDelta) =>
        LET est == RawEstimate(vals2, fx3Ratio)
        IN /\ ClosestEntry(rret, est)
           /\ est = 40000000 => rret = 40000000
           /\ est = 36000000 => rret = 38400000

\* both examples of the claim are reached
C11_Examples ==
    /\ CounterRead
    /\ RawEstimate(vals2, fx3Ratio) = 36000000 /\ rret = 38400000

-----------------------------------------------------------------------------
(* SetInterfaceFreq (five arguments) and SetDirectClocking *)

\* a default-constructed FPGA_PLL_clock: index 0, no phase shift, not
\* bypassed, no phase search
FreshClock == Clock(0, 0, 0, FALSE, FALSE)

\* enabling direct clocking overwrites the register with the bit alone
DirectClockValueBitOnly(drct_clk_ctrl_0005, clockIndex) == 2 ^ clockIndex

\* drct_clk_ctrl_0005 | (1 << clockIndex) (line 419)
DirectClockValue(drct_clk_ctrl_0005, clockIndex) ==
    BitOr(drct_clk_ctrl_0005, 2 ^ clockIndex)

\* lines 412-420: the register accesses of SetDirectClocking on an open
\* connection, appended to log; a read that fails leaves its variable at the
\* value it was initialised to
SetDirectClockingLog(log, clockIndex) ==
    LET drct_clk_ctrl_0005 == IF Ok(log) THEN dev.r5 ELSE 0
        log2 == log \o << ReadRegister(5, dev.r5, Ok(log)),
                          ReadRegister(6, 0, ioFailAt # Len(log) + 2) >>
    IN Append(log2,
              WriteRegisters(<< << 5, DirectClockValue(drct_clk_ctrl_0005, clockIndex) >> >>,
                             Ok(log2)))

\* lines 407-422: what SetDirectClocking returns
SetDirectClockingResult(log) ==
    IF ~connOpen THEN ReportError(ENODEV)
    ELSE IF ioFailAt = Len(log) + 3 THEN ReportError(EIO)
    ELSE 0

\* the state SetDirectClocking leaves: the register log and the reports
SetDirectClocking(clockIndex) ==
    IF ~connOpen
    THEN /\ reported' = Append(reported, Report(ENODEV, "connection"))
         /\ UNCHANGED regLog
    ELSE /\ regLog' = SetDirectClockingLog(regLog, clockIndex)
         /\ reported' = IF SetDirectClockingResult(regLog) = 0 THEN reported
                        ELSE Append(reported, Report(EIO, "failed to write registers"))

\* the call of SetPllFrequency(index, freq, clks, 2) up to its first line
CallSetPllFrequency(index, freq, clks) ==
    /\ pllIndex' = index /\ inputFreq' = freq /\ clocks' = clks
    /\ nanInt' = 0 /\ reg23val' = 0 /\ N' = 0 /\ M' = 0 /\ Fvco' = <<>>
    /\ now' = 0 /\ t2' = 0 /\ done' = FALSE /\ errorCode' = 0 /\ error' = FALSE
    /\ clk' = 0 /\ sawDone' = FALSE /\ pret' = 0 /\ ppc' = "call"
    /\ UNCHANGED <<connOpen, boardType, dev, ioFailAt, reported, regLog>>

\* clocks[0] and clocks[1] as lines 607-611 and 619-623 set them
InterfaceClocks(clks, rate, phase) ==
    << [clks[1] EXCEPT !.index = 0, !.outFrequency = rate],
       [clks[2] EXCEPT !.index = 1, !.outFrequency = rate, !.phaseShift_deg = phase] >>

\* a sub-operation that starts: its direction, whether it is SetPllFrequency,
\* the ordinal of its first register access and of its first report
SubCall(dir, pll, ret) ==
    [dir |-> dir, pll |-> pll, first |-> Len(regLog) + 1,
     firstReport |-> Len(reported) + 1, returned |-> ~pll, ret |-> ret]

\* the last sub-operation has returned ret
Returned(calls, ret) ==
    [calls EXCEPT ![Len(calls)] = [@ EXCEPT !.returned = TRUE, !.ret = ret]]

\* the later status replaces the earlier one
CombineLast(st, ret) == ret

\* status |= ... (lines 624, 627)
Combine(st, ret) == BitOr(st, ret)

\* the rates and the phases of the calls
RateChoices == {499, 500, 3072}
PhaseChoices == {-90, 90}

\* what the device answers, register 0x0005 with some and with all bits set
IfaceDevs == {[r5 |-> v, r3 |-> 0, r25 |-> 368] : v \in {0, 240, 65535}}

IfaceStart ==
    /\ clocks = << FreshClock, FreshClock >>
    /\ pllIndex = 0 /\ inputFreq = 0
    /\ nanInt = 0 /\ reg23val = 0 /\ N = 0 /\ M = 0 /\ Fvco = <<>>
    /\ now = 0 /\ t2 = 0 /\ done = FALSE /\ errorCode = 0 /\ error = FALSE
    /\ clk = 0 /\ sawDone = FALSE /\ reported = <<>> /\ pret = 0 /\ ppc = "idle"
    /\ status = 0 /\ subCalls = <<>> /\ iret = 0 /\ ipc = "rx"
    /\ CodecIdle /\ WfmIdle /\ RefIdle /\ ConnIdle /\ StreamIdle /\ SpiIdle

\* a board that is not polled: every rate, device answer and failing access
IfaceInitPlain ==
    /\ connOpen \in BOOLEAN
    /\ boardType = LMS_DEV_UNKNOWN
    /\ txRate_Hz \in RateChoices /\ rxRate_Hz \in RateChoices
    /\ txPhase \in PhaseChoices /\ rxPhase = 90
    /\ dev \in IfaceDevs
    /\ ioFailAt \in 0..MaxIoFail

\* the board whose status register is polled
IfaceInitPolled ==
    /\ connOpen = TRUE
    /\ boardType = LMS_DEV_LIMESDR_QPCIE
    /\ txRate_Hz \in {499, 3072} /\ rxRate_Hz \in {499, 3072}
    /\ txPhase = 90 /\ rxPhase = 90
    /\ dev = DefaultDev
    /\ ioFailAt = 0

IfaceInit == IfaceStart /\ (IfaceInitPlain \/ IfaceInitPolled)

\* lines 603-615: the RX clocks, up to the call of SetPllFrequency or through
\* SetDirectClocking
SetInterfaceFreq_Rx ==
    /\ ipc = "rx"
    /\ IF rxRate_Hz >= PLLlowerLimit
       THEN /\ CallSetPllFrequency(1, rxRate_Hz,
                                   InterfaceClocks(clocks, rxRate_Hz, rxPhase))
            /\ subCalls' = Append(subCalls, SubCall("rx", TRUE, 0))
            /\ ipc' = "rxpll"
            /\ UNCHANGED status
       ELSE /\ SetDirectClocking(1)
            /\ status' = SetDirectClockingResult(regLog)
            /\ subCalls' = Append(subCalls,
                                  SubCall("rx", FALSE, SetDirectClockingResult(regLog)))
            /\ ipc' = "tx"
            /\ UNCHANGED <<pllArgs, clocks, nanInt, reg23val, N, M, Fvco, now, t2, done,
                           errorCode, error, clk, sawDone, pret, ppc>>
    /\ UNCHANGED <<txRate_Hz, rxRate_Hz, txPhase, rxPhase, iret,
                   codecVars, wfmVars, refVars, chipVars>>

\* line 612: status = SetPllFrequency(1, rxRate_Hz, clocks, 2) has returned
SetInterfaceFreq_RxReturn ==
    /\ ipc = "rxpll" /\ ppc = "done"
    /\ status' = pret
    /\ subCalls' = Returned(subCalls, pret)
    /\ ipc' = "tx"
    /\ UNCHANGED <<txRate_Hz, rxRate_Hz, txPhase, rxPhase, iret,
                   codecVars, wfmVars, pllVars, refVars, chipVars, regLog>>

\* lines 617-628: the TX clocks, up to the call of SetPllFrequency or through
\* SetDirectClocking and the return
SetInterfaceFreq_Tx ==
    /\ ipc = "tx"
    /\ IF txRate_Hz >= PLLlowerLimit
       THEN /\ CallSetPllFrequency(0, txRate_Hz,
                                   InterfaceClocks(clocks, txRate_Hz, txPhase))
            /\ subCalls' = Append(subCalls, SubCall("tx", TRUE, 0))
            /\ ipc' = "txpll"
            /\ UNCHANGED <<status, iret>>
       ELSE /\ SetDirectClocking(0)
            /\ status' = Combine(status, SetDirectClockingResult(regLog))
            /\ iret' = Combine(status, SetDirectClockingResult(regLog))
            /\ subCalls' = Append(subCalls,
                                  SubCall("tx", FALSE, SetDirectClockingResult(regLog)))
            /\ ipc' = "done"
            /\ UNCHANGED <<pllArgs, clocks, nanInt, reg23val, N, M, Fvco, now, t2, done,
                           errorCode, error, clk, sawDone, pret, ppc>>
    /\ UNCHANGED <<txRate_Hz, rxRate_Hz, txPhase, rxPhase,
                   codecVars, wfmVars, refVars, chipVars>>

\* lines 624, 628: status |= SetPllFrequency(0, txRate_Hz, clocks, 2) has
\* returned; return status
SetInterfaceFreq_TxReturn ==
    /\ ipc = "txpll" /\ ppc = "done"
    /\ status' = Combine(status, pret)
    /\ iret' = Combine(status, pret)
    /\ subCalls' = Returned(subCalls, pret)
    /\ ipc' = "done"
    /\ UNCHANGED <<txRate_Hz, rxRate_Hz, txPhase, rxPhase,
                   codecVars, wfmVars, pllVars, refVars, chipVars, regLog>>

IfaceNext ==
    \/ SetInterfaceFreq_Rx
    \/ SetInterfaceFreq_RxReturn
    \/ SetInterfaceFreq_Tx
    \/ SetInterfaceFreq_TxReturn
    \/ SetPllFrequency_Enter
    \/ SetPllFrequency_PollReset
    \/ SetPllFrequency_Configure
    \/ SetPllFrequency_PollConfig
    \/ SetPllFrequency_PhaseStart
    \/ SetPllFrequency_PollPhase

SpecIface == IfaceInit /\ [][IfaceNext]_vars

\* C15: when SetInterfaceFreq returns, the RX sub-operation and then the TX
\* sub-operation have been called and have returned, whatever the RX
\* sub-operation returned, and the value returned is nonzero exactly when
\* one of the two returned nonzero.
C15_BothAttempted ==
    /\ ipc \in {"txpll", "done"} =>
           /\ Len(subCalls) = 2
           /\ subCalls[1].dir = "rx" /\ subCalls[1].returned
           /\ subCalls[2].dir = "tx"
    /\ ipc = "done" =>
           /\ subCalls[2].returned
           /\ (iret # 0) = (subCalls[1].ret # 0 \/ subCalls[2].ret # 0)

\* the RX configuration failed, the TX configuration went to the registers
\* and succeeded
C15_Witness ==
    /\ ipc = "done"
    /\ subCalls[1].ret # 0 /\ subCalls[2].ret = 0 /\ iret # 0
    /\ subCalls[2].pll /\ subCalls[2].first <= Len(regLog)

\* the rate and the PLL index of a direction
RateOf(dir) == IF dir = "rx" THEN rxRate_Hz ELSE txRate_Hz
PllIndexOf(dir) == IF dir = "rx" THEN 1 ELSE 0

\* the register accesses and the number of reports of sub-operation k
AccessesOf(k) ==
    SubSeq(regLog, subCalls[k].first,
           IF k < Len(subCalls) THEN subCalls[k + 1].first - 1 ELSE Len(regLog))
ReportsOf(k) ==
    (IF k < Len(subCalls) THEN subCalls[k + 1].firstReport ELSE Len(reported) + 1)
        - subCalls[k].firstReport

\* v is r with bit number b set and every other bit as in r
SetsBit(v, r, b) == v = r + (IF (r \div 2 ^ b) % 2 = 1 THEN 0 ELSE 2 ^ b)

\* C16: a direction whose rate is below 5 MHz goes through SetDirectClocking:
\* no divider register and no 0x0023 is written for it; on an open connection
\* the sub-operation reads 0x0005 and 0x0006 and writes to 0x0005 the value
\* read (zero when the read failed) with the bit of the PLL index of the
\* direction set, 1 for RX and 0 for TX; and when the write succeeds it
\* returns 0 and reports no error.
C16_DirectClocking ==
    \A k \in 1..Len(subCalls) :
        (subCalls[k].returned /\ RateOf(subCalls[k].dir) < 500) =>
            LET seg == AccessesOf(k)
            IN /\ ~subCalls[k].pll
               /\ ~WritesTo(seg, DividerRegs \cup {35})
               /\ ~connOpen => seg = <<>>
               /\ connOpen =>
                      /\ Len(seg) = 3
                      /\ seg[1].op = "R" /\ seg[1].addr = 5
                      /\ seg[2].op = "R" /\ seg[2].addr = 6
                      /\ seg[3].op = "WB" /\ Len(seg[3].batch) = 1
                      /\ seg[3].batch[1][1] = 5
                      /\ SetsBit(seg[3].batch[1][2],
                                 IF seg[1].ok THEN seg[1].val ELSE 0,
                                 PllIndexOf(subCalls[k].dir))
                      /\ seg[3].ok => (subCalls[k].ret = 0 /\ ReportsOf(k) = 0)

\* RX below 5 MHz with some bits of 0x0005 set, TX configured through the PLL
C16_Witness ==
    /\ ipc = "done" /\ iret = 0 /\ connOpen /\ ioFailAt = 0
    /\ rxRate_Hz < 500 /\ txRate_Hz >= 500
    /\ dev.r5 = 240
    /\ AccessesOf(1)[3].batch = << << 5, 242 >> >>
    /\ WritesTo(AccessesOf(2), DividerRegs)

\* both directions below 5 MHz: the call writes 0x0005 twice and nothing else
C16_BothDirect ==
    /\ ipc = "done" /\ iret = 0 /\ connOpen /\ ioFailAt = 0
    /\ rxRate_Hz < 500 /\ txRate_Hz < 500
    /\ dev.r5 = 0
    /\ AccessesOf(1)[3].batch = << << 5, 2 >> >>
    /\ AccessesOf(2)[3].batch = << << 5, 1 >> >>

-----------------------------------------------------------------------------
(* The layout of the packed bytes *)

\* bits lo+n-1..lo of the int16_t v, read as two's complement
Field(v, lo, n) == ((v % 65536) \div 2 ^ lo) % 2 ^ n

\* the bytes of a sample in one packet position: 3, or 6 in MIMO mode
Stride(m) == IF m THEN 6 ELSE 3

\* C21: the packed buffer holds 3*samplesCount bytes, 6*samplesCount in MIMO
\* mode; the sample k of channel ch occupies three bytes, those of channel 1
\* right after those of channel 0: I[7:0], then I[11:8] in the low nibble and
\* Q[3:0] in the high nibble, then Q[11:4].
C21_ByteLayout ==
    cpc \in {"packed", "unpacked"} =>
        /\ Len(buffer) = Stride(mimo) * samplesCount
        /\ \A ch \in Channels(mimo), k \in 1..samplesCount :
               LET b == Stride(mimo) * (k - 1) + 3 * (ch - 1)
                   s == samples[ch][k]
               IN /\ buffer[b + 1] = Field(s.i, 0, 8)
                  /\ buffer[b + 2] = Field(s.i, 8, 4) + 16 * Field(s.q, 0, 4)
                  /\ buffer[b + 3] = Field(s.q, 4, 8)

\* MIMO, a negative I that does not fit 12 bits on channel 1, not in the
\* first sample
C21_Witness ==
    /\ cpc = "packed" /\ mimo /\ samplesCount >= 2
    /\ samples[2][2] = [i |-> -2049, q |-> 1365]
    /\ SubSeq(buffer, 10, 12) = << 255, 87, 85 >>
    /\ Len(buffer) = 6 * samplesCount

-----------------------------------------------------------------------------
(* The end of an upload *)

\* C22: a call of UploadWFM calls AbortSending once, when it returns and not
\* before, and calls SendData no more after it, whether every packet was
\* accepted or a short send ended the loop.
C22_AbortOnceAtEnd ==
    /\ [](aborts = (IF wpc = "done" THEN 1 ELSE 0))
    /\ [][aborts' # aborts => (sent' = sent /\ wpc' = "done")]_vars
    /\ [][aborts > 0 => sent' = sent]_vars

\* an upload ended by a short send of its second packet, the endpoint aborted
C22_Witness ==
    /\ wpc = "done" /\ aborts = 1 /\ wret # 0
    /\ Len(sent) = 2
    /\ sent[1].accepted = sent[1].bToSend
    /\ sent[2].accepted # sent[2].bToSend

\* an upload of two packets that succeeded, the endpoint aborted
C22_Succeeded ==
    wpc = "done" /\ aborts = 1 /\ wret = 0 /\ Len(sent) = 2

-----------------------------------------------------------------------------
(* The values DetectRefClk returns *)

\* the call returned because a register access failed
RefAccessFailed == \E k \in 1..Len(regLog) : ~regLog[k].ok

\* the call returned because register 0x65 never showed the completion bit
\* and the last round of the loop ended after more than 0.5 s
RefTimedOut ==
    /\ regLog[Len(regLog)].op = "R" /\ regLog[Len(regLog)].ok
    /\ BitAnd(regLog[Len(regLog)].val, 4) = 0
    /\ elapsed > RefTimeoutTicks

\* C23: a call of DetectRefClk that returned gives -1 or one of the four
\* table values, the index the table is read with is within 0..3, and the
\* result is -1 when a register access failed or the completion bit was not
\* seen within 0.5 s.
C23_TableValueOrMinusOne ==
    rpc = "done" =>
        /\ rret = -1 \/ \E j \in 1..Len(clkTbl) : rret = clkTbl[j]
        /\ CounterRead =>
               TableScan(RawEstimate(vals2, fx3Ratio), 0, InitialDelta) - 1
                   \in 0..(Len(clkTbl) - 1)
        /\ (RefAccessFailed \/ RefTimedOut) => rret = -1

\* the same for the estimates of at most 130.72 MHz
C23_UpTo130 ==
    (rpc = "done" /\ RawEstimate(vals2, fx3Ratio) <= clkTbl[1] + InitialDelta) =>
        /\ rret = -1 \/ \E j \in 1..Len(clkTbl) : rret = clkTbl[j]
        /\ CounterRead =>
               TableScan(RawEstimate(vals2, fx3Ratio), 0, InitialDelta) - 1
                   \in 0..(Len(clkTbl) - 1)
        /\ (RefAccessFailed \/ RefTimedOut) => rret = -1

\* -1 is returned exactly after a failed access or a timeout
C23_MinusOneOnlyOnFailure ==
    (rpc = "done" /\ rret = -1) => (RefAccessFailed \/ RefTimedOut)

-----------------------------------------------------------------------------
(* The counter index of a phase configuration *)

\* the batches in log that start a phase configuration, in order: they write
\* the step count to 0x0024 and end with 0x0023 written with PHCFG_START
StartBatchesOf(log) ==
    SelectSeq(log, LAMBDA e :
        /\ e.op = "WB"
        /\ \E j \in 1..Len(e.batch) : e.batch[j][1] = 36
        /\ e.batch[Len(e.batch)][1] = 35
        /\ BitAnd(e.batch[Len(e.batch)][2], PHCFG_START) # 0)

\* bits 12:8 and bits 11:8 of the value batch e writes with PHCFG_START
\* (index + 2) & 0x1F of output c
CntIndOf(c) == (c.index + 2) % 32

CounterField(e) == (e.batch[Len(e.batch)][2] \div 256) % 32
CounterFieldLow(e) == (e.batch[Len(e.batch)][2] \div 256) % 16

\* C24: the k-th phase configuration of a call of SetPllFrequency is the one
\* of its k-th output, and bits 12:8 of the value it writes to 0x0023 with
\* PHCFG_START are (index + 2) & 0x1F of that output, whatever the indexes of
\* the outputs before it.
C24_CounterIndexField ==
    \A k \in 1..Len(StartBatchesOf(regLog)) :
        CounterField(StartBatchesOf(regLog)[k]) = CntIndOf(clocks[k])

\* bits 11:8 are those of (index + 2) & 0x1F of the output
C24_LowBitsOfField ==
    \A k \in 1..Len(StartBatchesOf(regLog)) :
        CounterFieldLow(StartBatchesOf(regLog)[k]) = CntIndOf(clocks[k]) % 16

\* the field is right when bit 12 was clear in register 0x0003 and no output
\* up to this one has an index above 13
C24_FieldBelowSixteen ==
    \A k \in 1..Len(StartBatchesOf(regLog)) :
        (BitAnd(dev.r3, 4096) = 0 /\ \A j \in 1..k : clocks[j].index <= 13) =>
            CounterField(StartBatchesOf(regLog)[k]) = CntIndOf(clocks[k])

\* register 0x0003 read as 0, output 14 shifted, then output 0 configured
\* with the field 18
C24_BitTwelveKept ==
    /\ dev.r3 = 0 /\ clocks[1].index = 14 /\ clocks[2].index = 0
    /\ Len(StartBatchesOf(regLog)) = 2
    /\ CounterField(StartBatchesOf(regLog)[1]) = 16
    /\ CounterField(StartBatchesOf(regLog)[2]) = 18

-----------------------------------------------------------------------------
(* StartStreaming and StopStreaming *)

\* const int RX_EN, TX_EN (lines 17-18)
RX_EN == 1
TX_EN == 2

\* the most calls of one behaviour
MaxStreamCalls == 2

\* what a register access of the connection returns: 0, or -1 when it fails
IoStatus(ok) == IF ok THEN 0 ELSE -1

\* StopStreaming that clears RX_EN and leaves TX_EN
StopValueRxOnly(interface_ctrl_000A) == ClearBits(interface_ctrl_000A, RX_EN)

\* interface_ctrl_000A | RX_EN (lines 50-51)
StartValue(interface_ctrl_000A) == BitOr(interface_ctrl_000A, RX_EN)

\* interface_ctrl_000A & ~(RX_EN | TX_EN) (lines 61-62)
StopValue(interface_ctrl_000A) == ClearBits(interface_ctrl_000A, BitOr(RX_EN, TX_EN))

\* the values register 0x000A holds when the first call is made
CtrlVals == {0, 1, 2, 3, 512, 514, 65532, 65535}

\* the calls made so far: each reads the register once
StreamCalls == Len(SelectSeq(regLog, LAMBDA e : e.op = "R"))

StreamInit ==
    /\ ctrl000A \in CtrlVals /\ sret = 0 /\ spc = "ready"
    /\ ioFailAt \in 0..MaxIoFail
    /\ connOpen = TRUE /\ boardType = LMS_DEV_UNKNOWN /\ pllIndex = 0 /\ inputFreq = 0
    /\ clocks = <<>> /\ dev = <<>> /\ nanInt = 0
    /\ reg23val = 0 /\ N = 0 /\ M = 0 /\ Fvco = <<>> /\ now = 0 /\ t2 = 0
    /\ done = FALSE /\ errorCode = 0 /\ error = FALSE /\ clk = 0 /\ sawDone = FALSE
    /\ reported = <<>> /\ pret = 0 /\ ppc = "idle"
    /\ CodecIdle /\ WfmIdle /\ RefIdle /\ IfaceIdle /\ ConnIdle /\ SpiIdle

\* the read of lines 46-48 and 57-59 appended to log, and the write of value
\* after it; a write that succeeds changes the register
StreamRead(log) == Append(log, ReadRegister(10, ctrl000A, Ok(log)))
StreamWrite(log, value) == Append(log, WriteRegisterResult(10, value, Ok(log)))
Written(log, value) == IF Ok(log) THEN value ELSE ctrl000A

\* lines 44-53
StartStreaming ==
    /\ spc # "idle" /\ StreamCalls < MaxStreamCalls
    /\ spc' = "started"
    /\ LET log1 == StreamRead(regLog)
       IN IF ~Ok(regLog)
          THEN regLog' = log1 /\ sret' = IoStatus(FALSE) /\ UNCHANGED ctrl000A
          ELSE /\ regLog' = StreamWrite(log1, StartValue(ctrl000A))
               /\ ctrl000A' = Written(log1, StartValue(ctrl000A))
               /\ sret' = IoStatus(Ok(log1))
    /\ UNCHANGED <<spiVars, codecVars, wfmVars, pllVars, refVars, ifaceVars>>

\* lines 55-64: the value the write returns is dropped
StopStreaming ==
    /\ spc # "idle" /\ StreamCalls < MaxStreamCalls
    /\ spc' = "stopped"
    /\ LET log1 == StreamRead(regLog)
       IN IF ~Ok(regLog)
          THEN regLog' = log1 /\ sret' = IoStatus(FALSE) /\ UNCHANGED ctrl000A
          ELSE /\ regLog' = StreamWrite(log1, StopValue(ctrl000A))
               /\ ctrl000A' = Written(log1, StopValue(ctrl000A))
               /\ sret' = IoStatus(TRUE)
    /\ UNCHANGED <<spiVars, codecVars, wfmVars, pllVars, refVars, ifaceVars>>

StreamNext == StartStreaming \/ StopStreaming

SpecStream == StreamInit /\ [][StreamNext]_vars

\* the last access of the last call, and the one before it
LastAccess == regLog[Len(regLog)]
AccessBefore == regLog[Len(regLog) - 1]

\* C26: a call of StartStreaming or StopStreaming whose read of 0x000A
\* failed wrote nothing and returned the status of the read; otherwise it
\* wrote 0x000A once, with the value just read in every bit but RX_EN (bit 0),
\* which StartStreaming sets, and RX_EN and TX_EN (bits 0 and 1), which
\* StopStreaming clears.
C26_OnlyEnableBits ==
    spc \in {"started", "stopped"} =>
        IF LastAccess.op = "R"
        THEN ~LastAccess.ok /\ LastAccess.addr = 10 /\ sret = IoStatus(FALSE) /\ sret # 0
        ELSE /\ LastAccess.op = "W" /\ LastAccess.addr = 10
             /\ AccessBefore.op = "R" /\ AccessBefore.addr = 10 /\ AccessBefore.ok
             /\ \A b \in 0..15 :
                    Field(LastAccess.val, b, 1) =
                        IF spc = "started"
                        THEN (IF b = 0 THEN 1 ELSE Field(AccessBefore.val, b, 1))
                        ELSE (IF b \in {0, 1} THEN 0 ELSE Field(AccessBefore.val, b, 1))
             /\ LastAccess.val \in 0..65535
             /\ LastAccess.ok => ctrl000A = LastAccess.val

\* 0x0202 started to 0x0203 and then stopped to 0x0200
C26_Witness ==
    /\ spc = "stopped" /\ sret = 0 /\ Len(regLog) = 4
    /\ regLog[1].val = 514 /\ regLog[2].val = 515
    /\ regLog[3].val = 515 /\ regLog[4].val = 512 /\ ctrl000A = 512

\* a call whose read failed after a call that wrote
C26_ReadFailed ==
    /\ spc = "started" /\ sret # 0 /\ Len(regLog) = 3
    /\ regLog[2].op = "W" /\ ~regLog[3].ok /\ ctrl000A = regLog[2].val

\* StopStreaming returns 0 when its write failed, StartStreaming does not
C26_WriteFailed ==
    (spc \in {"started", "stopped"} /\ LastAccess.op = "W" /\ ~LastAccess.ok) =>
        (sret = 0) = (spc = "stopped")

-----------------------------------------------------------------------------
(* SetInterfaceFreq (three arguments): the phase search with the test *)
(* configuration of the LMS7002M                                       *)

\* const std::vector<uint32_t> spiAddr (lines 643-644) and bakRegCnt (645)
spiAddr == << 33, 34, 35, 36, 39, 42, 1024, 1036, 1035, 1024, 1035, 1024 >>
bakRegCnt == Len(spiAddr) - 4

\* spiData of lines 690-691 and of line 715
spiDataRx ==
    << 3743, 4095, 21840, 58596, 58596, 134, 653, 255, 21845, 717, 43690, 749 >>
spiDataTx == << 3743, 4095, 21840, 58596, 58596, 1156 >>

\* rxPhC1, txPhC1 in 1/100000 degree; rxPhC2, txPhC2 in 1/100000 degree for
\* 10 kHz (lines 638-641)
rxPhC1 == 8946000
rxPhC2 == 1240
txPhC1 == 8961000
txPhC2 == 271

\* phC1 + phC2 * rate in degrees: a whole number for the rates of the model
\* that reach SetPllFrequency, 8.5 MHz (100 degrees) and 90 MHz (114 degrees)
InterfacePhase(phC1, phC2, rate) == (phC1 + phC2 * rate) \div 100000

\* the word of an SPI transfer without its write bit: (addr << 16) | data
SpiWord(addr, data) == BitOr(Shl(addr, 16), data)

\* the registers the call touches, other than 0x0020
LmsAddrs == {spiAddr[i] : i \in 1..Len(spiAddr)}

\* the LMS7002M takes one written word: 0x0020 is one register, bits 0 and 1
\* of it select the banks of channel A and of channel B for the others
SpiWrite(chip, word) ==
    LET addr == (word \div 65536) % 32768
        data == word % 65536
    IN IF addr = 32 THEN [chip EXCEPT !.r20 = data]
       ELSE [chip EXCEPT
                !.A = IF Field(chip.r20, 0, 1) = 1 THEN [@ EXCEPT ![addr] = data] ELSE @,
                !.B = IF Field(chip.r20, 1, 1) = 1 THEN [@ EXCEPT ![addr] = data] ELSE @]

RECURSIVE WriteLMS7002MSPI(_, _)
\* connection->WriteLMS7002MSPI(dataWr.data(), n, channel): the words in order
WriteLMS7002MSPI(chip, words) ==
    IF words = <<>> THEN chip
    ELSE WriteLMS7002MSPI(SpiWrite(chip, Head(words)), Tail(words))

\* connection->ReadLMS7002MSPI(dataWr.data(), dataRd.data(), n, channel): the
\* values of the registers the words address, channel B when bit 1 alone of
\* 0x0020 is set
ReadLMS7002MSPI(chip, words) ==
    [i \in 1..Len(words) |->
        LET addr == (words[i] \div 65536) % 32768
        IN IF addr = 32 THEN chip.r20
           ELSE IF chip.r20 % 4 = 2 THEN chip.B[addr] ELSE chip.A[addr]]

\* dataWr[i] for i < n with the data given (lines 694-695, 743-744), and
\* with no data for a read (lines 675-676)
Words(n, data) ==
    [i \in 1..n |-> SpiWord(spiAddr[i], IF data = <<>> THEN 0 ELSE data[i])]

\* lines 741-752: the banks and 0x0020 written back
Restore(chip, rdA, rdB, r20) ==
    LET c1 == WriteLMS7002MSPI(chip, << SpiWord(32, 65533) >>)
        c2 == WriteLMS7002MSPI(c1, Words(bakRegCnt, rdA))
        c3 == WriteLMS7002MSPI(c2, << SpiWord(32, 65534) >>)
        c4 == WriteLMS7002MSPI(c3, Words(bakRegCnt, rdB))
    IN WriteLMS7002MSPI(c4, << SpiWord(32, r20) >>)

\* lines 699-704 and 725-729: both clocks set for the phase search
SearchClocksOf(clks, rate, phase) ==
    LET c == [clks[1] EXCEPT !.index = 1, !.outFrequency = rate,
                             !.phaseShift_deg = phase, !.findPhase = TRUE]
    IN << c, c >>

\* lines 707-710 and 733-736: the clocks of the second attempt
FallbackClocks(clks) ==
    << [clks[1] EXCEPT !.index = 0, !.phaseShift_deg = 0, !.findPhase = FALSE],
       [clks[2] EXCEPT !.findPhase = FALSE] >>

\* const int pll_ind (line 635)
PllInd(ch) == IF ch = 1 THEN 2 ELSE 0

\* line 654: the board and its gateware take the phase search
PhaseSearchOn(vals) ==
    \/ vals[1] = 14 /\ vals[2] > 1 /\ vals[3] > 14
    \/ vals[1] = 15 /\ vals[2] > 1 /\ vals[3] > 6

\* what registers 0, 1 and 2 answer
IdChoices == {<< 14, 2, 15 >>, << 14, 2, 14 >>, << 15, 2, 7 >>, << 15, 1, 7 >>}

\* the registers of the chip when the call is made: a bank holds the
\* addresses as values, or 0xAAAA in 0x40B and 1 in the others, or zeros
BankOf(kind) ==
    [a \in LmsAddrs |-> IF kind = "addr" THEN a
                        ELSE IF kind = "test" THEN (IF a = 1035 THEN 43690 ELSE 1)
                        ELSE 0]
LmsChoices ==
    {[r20 |-> 65535, A |-> BankOf("addr"), B |-> BankOf("zero")],
     [r20 |-> 1, A |-> BankOf("test"), B |-> BankOf("addr")],
     [r20 |-> 2, A |-> BankOf("test"), B |-> BankOf("test")]}

\* the call is made. The device answers as in the PLL model, and with ids for
\* the registers 0 to 2. The rates are 8.5 MHz and 90 MHz: on a board that is
\* not polled with every answer of the registers 0 to 2 and every content of
\* the chip (channel 1 for the last); with the read of the registers 0 to 2
\* failing, and the read of 0x0003 by the first and by the second call of
\* SetPllFrequency; on the board whose status register is polled, whose
\* registers 0 to 2 do not ask for the phase search. Or a rate is below 5 MHz.
SpiInit ==
    /\ \E ids \in IdChoices \cup {<< 16, 2, 20 >>} :
          /\ dev = [r5 |-> DefaultDev.r5, r3 |-> DefaultDev.r3, r25 |-> DefaultDev.r25,
                    r0 |-> ids[1], r1 |-> ids[2], r2 |-> ids[3]]
          /\ lms \in LmsChoices
          /\ \/ /\ boardType = LMS_DEV_UNKNOWN
                /\ rxRate_Hz = 850 /\ txRate_Hz = 9000
                /\ ids \in IdChoices
                /\ channel = IF lms.r20 = 2 THEN 1 ELSE 0
                /\ ioFailAt = 0
             \/ /\ boardType = LMS_DEV_UNKNOWN
                /\ rxRate_Hz = 850 /\ txRate_Hz = 9000
                /\ ids = << 14, 2, 15 >> /\ lms.r20 = 65535
                /\ channel = 0
                /\ ioFailAt \in {1, 4, 13}
             \/ /\ boardType = LMS_DEV_UNKNOWN
                /\ rxRate_Hz \in {499, 850} /\ txRate_Hz \in {499, 9000}
                /\ rxRate_Hz = 499 \/ txRate_Hz = 499
                /\ ids = << 14, 2, 15 >> /\ lms.r20 = 65535
                /\ channel = 0
                /\ ioFailAt = 0
             \/ /\ boardType = LMS_DEV_LIMESDR_QPCIE
                /\ rxRate_Hz = 850 /\ txRate_Hz = 9000
                /\ ids = << 16, 2, 20 >> /\ lms.r20 = 1
                /\ channel = 1
                /\ ioFailAt = 0
    /\ fpc = "call" /\ lmsBefore = lms
    /\ dataRdA = <<>> /\ dataRdB = <<>> /\ reg20 = 0
    /\ connOpen = TRUE /\ pllIndex = 0 /\ inputFreq = 0 /\ clocks = <<>>
    /\ nanInt = 0 /\ reg23val = 0 /\ N = 0 /\ M = 0 /\ Fvco = <<>>
    /\ now = 0 /\ t2 = 0 /\ done = FALSE /\ errorCode = 0 /\ error = FALSE
    /\ clk = 0 /\ sawDone = FALSE /\ reported = <<>> /\ pret = 0 /\ ppc = "idle"
    /\ txPhase = 0 /\ rxPhase = 0 /\ status = 0 /\ subCalls = <<>>
    /\ iret = 0 /\ ipc = "idle"
    /\ CodecIdle /\ WfmIdle /\ RefIdle /\ StreamIdle /\ ConnIdle

\* line 659: the call of the function of five arguments, up to its first line
CallSetInterfaceFreq ==
    /\ txPhase' = InterfacePhase(txPhC1, txPhC2, txRate_Hz)
    /\ rxPhase' = InterfacePhase(rxPhC1, rxPhC2, rxRate_Hz)
    /\ clocks' = << FreshClock, FreshClock >>
    /\ status' = 0 /\ subCalls' = <<>> /\ ipc' = "rx"
    /\ fpc' = "plain"
    /\ UNCHANGED <<pllArgs, nanInt, reg23val, N, M, Fvco, now, t2, done, errorCode,
                   error, clk, sawDone, reported, pret, ppc, txRate_Hz, rxRate_Hz, iret>>

\* lines 635-659: whether the phase search is taken; vals is not initialised
\* and holds anything when the read fails
SetInterfaceFreq3_Probe ==
    /\ fpc = "call"
    /\ IF rxRate_Hz >= PLLlowerLimit /\ txRate_Hz >= PLLlowerLimit
       THEN /\ regLog' = Append(regLog, ReadRegisters(<< 0, 1, 2 >>,
                                                      << dev.r0, dev.r1, dev.r2 >>,
                                                      Ok(regLog)))
            /\ \E vals \in IF Ok(regLog) THEN {<< dev.r0, dev.r1, dev.r2 >>}
                           ELSE IdChoices :
                  IF PhaseSearchOn(vals)
                  THEN /\ fpc' = "backup"
                       /\ UNCHANGED <<pllVars, ifaceVars>>
                  ELSE CallSetInterfaceFreq
       ELSE /\ CallSetInterfaceFreq
            /\ UNCHANGED regLog
    /\ UNCHANGED <<channel, lms, lmsBefore, dataRdA, dataRdB, reg20, streamVars,
                   codecVars, wfmVars, refVars>>

\* lines 661-705: the registers saved, the test configuration loaded, the RX
\* phase search called
SetInterfaceFreq3_Backup ==
    /\ fpc = "backup"
    /\ LET c1 == WriteLMS7002MSPI(lms, << SpiWord(32, 65533) >>)
           c2 == WriteLMS7002MSPI(c1, << SpiWord(32, 65534) >>)
           c3 == WriteLMS7002MSPI(c2, << SpiWord(32, 65535) >>)
       IN /\ reg20' = ReadLMS7002MSPI(lms, << SpiWord(32, 0) >>)[1]
          /\ dataRdA' = ReadLMS7002MSPI(c1, Words(bakRegCnt, <<>>))
          /\ dataRdB' = ReadLMS7002MSPI(c2, Words(bakRegCnt, <<>>))
          /\ lms' = WriteLMS7002MSPI(c3, Words(Len(spiDataRx), spiDataRx))
    /\ CallSetPllFrequency(PllInd(channel) + 1, rxRate_Hz,
                           SearchClocksOf(<< FreshClock, FreshClock >>, rxRate_Hz,
                                          InterfacePhase(rxPhC1, rxPhC2, rxRate_Hz)))
    /\ fpc' = "rxsearch"
    /\ UNCHANGED <<channel, lmsBefore, ifaceVars, streamVars, codecVars, wfmVars, refVars>>

\* lines 705-723 and 730: the RX phase search has returned and failed, and
\* the second attempt is called; or the RX clocks are done, and the test
\* configuration for TX is loaded
SetInterfaceFreq3_RxReturn ==
    /\ fpc \in {"rxsearch", "rxplain"} /\ ppc = "done"
    /\ IF fpc = "rxsearch" /\ pret # 0
       THEN /\ CallSetPllFrequency(PllInd(channel) + 1, rxRate_Hz, FallbackClocks(clocks))
            /\ fpc' = "rxplain"
            /\ UNCHANGED <<status, lms>>
       ELSE /\ status' = IF fpc = "rxplain" THEN pret ELSE status
            /\ regLog' = regLog \o << WriteRegister(65535, 2 ^ channel),
                                      WriteRegister(10, 0), WriteRegister(10, 512) >>
            /\ lms' = WriteLMS7002MSPI(lms, Words(Len(spiDataTx), spiDataTx))
            /\ fpc' = "tx"
            /\ UNCHANGED pllVars
    /\ UNCHANGED <<channel, lmsBefore, dataRdA, dataRdB, reg20, txRate_Hz, rxRate_Hz,
                   txPhase, rxPhase, subCalls, iret, ipc, streamVars,
                   codecVars, wfmVars, refVars>>

\* lines 725-731: the TX phase search called
SetInterfaceFreq3_TxCall ==
    /\ fpc = "tx"
    /\ CallSetPllFrequency(PllInd(channel), txRate_Hz,
                           SearchClocksOf(clocks, txRate_Hz,
                                          InterfacePhase(txPhC1, txPhC2, txRate_Hz)))
    /\ fpc' = "txsearch"
    /\ UNCHANGED <<channel, lms, lmsBefore, dataRdA, dataRdB, reg20, ifaceVars,
                   streamVars, codecVars, wfmVars, refVars>>

\* lines 731-755: the TX phase search has returned and failed, and the second
\* attempt is called; or the TX clocks are done, the registers are written
\* back and the call returns
SetInterfaceFreq3_TxReturn ==
    /\ fpc \in {"txsearch", "txplain"} /\ ppc = "done"
    /\ IF fpc = "txsearch" /\ pret # 0
       THEN /\ CallSetPllFrequency(PllInd(channel), txRate_Hz, FallbackClocks(clocks))
            /\ fpc' = "txplain"
            /\ UNCHANGED <<status, iret, lms>>
       ELSE /\ status' = IF fpc = "txplain" THEN Combine(status, pret) ELSE status
            /\ iret' = status'
            /\ lms' = Restore(lms, dataRdA, dataRdB, reg20)
            /\ regLog' = Append(regLog, WriteRegister(10, 0))
            /\ fpc' = "done"
            /\ UNCHANGED pllVars
    /\ UNCHANGED <<channel, lmsBefore, dataRdA, dataRdB, reg20, txRate_Hz, rxRate_Hz,
                   txPhase, rxPhase, subCalls, ipc, streamVars,
                   codecVars, wfmVars, refVars>>

\* line 659: the function of five arguments has returned
SetInterfaceFreq3_PlainReturn ==
    /\ fpc = "plain" /\ ipc = "done"
    /\ fpc' = "done"
    /\ UNCHANGED <<channel, lms, lmsBefore, dataRdA, dataRdB, reg20, streamVars,
                   codecVars, wfmVars, pllVars, refVars, ifaceVars, regLog>>

SpiNext ==
    \/ SetInterfaceFreq3_Probe
    \/ SetInterfaceFreq3_Backup
    \/ SetInterfaceFreq3_RxReturn
    \/ SetInterfaceFreq3_TxCall
    \/ SetInterfaceFreq3_TxReturn
    \/ SetInterfaceFreq3_PlainReturn
    \/ IfaceNext
    \/ SetPllFrequency_PollSearch

SpecSpi == SpiInit /\ [][SpiNext]_vars

\* the call took the phase search and has returned
SearchReturned == fpc = "done" /\ dataRdA # <<>>

\* C25: when a call of SetInterfaceFreq(txRate, rxRate, channel) that took the
\* phase search returns, register 0x0020 and the registers 0x021, 0x022,
\* 0x023, 0x024, 0x027, 0x02A, 0x400, 0x40C and 0x40B of channel A and of
\* channel B hold the values they held when the call was made, whatever the
\* calls of SetPllFrequency returned.
C25_RegistersRestored ==
    SearchReturned =>
        /\ lms.r20 = lmsBefore.r20
        /\ \A a \in LmsAddrs : lms.A[a] = lmsBefore.A[a] /\ lms.B[a] = lmsBefore.B[a]

\* the same for every register but 0x40B
C25_AllBut40B ==
    SearchReturned =>
        /\ lms.r20 = lmsBefore.r20
        /\ \A a \in LmsAddrs \ {1035} :
               lms.A[a] = lmsBefore.A[a] /\ lms.B[a] = lmsBefore.B[a]

\* 0x40B is left at 0xAAAA on both channels
C25_40BLeft ==
    SearchReturned => lms.A[1035] = 43690 /\ lms.B[1035] = 43690

\* both phase searches succeeded, and 0x40B of channel A, which held 0x40B,
\* holds 0xAAAA
C25_NotRestored ==
    /\ SearchReturned /\ iret = 0 /\ ioFailAt = 0
    /\ lmsBefore.A[1035] = 1035 /\ lms.A[1035] = 43690
    /\ lmsBefore.B[1035] = 0 /\ lms.B[1035] = 43690

\* a second attempt failed and the call returned its error
C25_AllFailed ==
    SearchReturned /\ iret # 0 /\ status # 0

====
